---------------------------- MODULE Spec2Model ----------------------------
(***************************************************************************)
(* Model of the proof-composition pipeline of the prover crate:            *)
(*   - the on-disk snark cache of the load_or_gen_*_snark operations       *)
(*     (prover/src/common/prover/{inner,compression,aggregation,           *)
(*     recursion}.rs, prover/src/utils/io.rs),                             *)
(*   - the recursion fold of gen_recursion_snark,                          *)
(*   - the proof artifacts of prover/src/proof/proof_v2.rs and the         *)
(*     verifiers of prover/src/{aggregator,zkevm}/verifier.rs.             *)
(* Each subsystem has its own specification over the shared variables:     *)
(* SpecCache, SpecFold (SpecFoldFair), SpecVerify and SpecBundle.          *)
(***************************************************************************)
EXTENDS Integers, Sequences, FiniteSets, TLC

VARIABLES
    \* ---- snark cache (SpecCache) ----
    disk,           \* the file system: a function from the paths that exist to their contents
    env,            \* the process environment: COMPRESSION_CONFIG, AGGREGATION_CONFIG, BUNDLE_CONFIG
    adapter_calls,  \* number of circuit-adapter invocations so far (the call-count probe)
    last,           \* the load_or_gen call that returned last
    prev,           \* the load_or_gen call that returned before it
    n_calls,        \* number of load_or_gen calls made
    \* ---- recursion fold (SpecFold) ----
    pc,             \* position of gen_recursion_snark
    batch_snarks,   \* its argument
    init_snark,     \* the placeholder initial snark (no verifying key)
    circuit_for_pk, \* the circuit built only for key generation
    pk,             \* the proving key obtained from params_and_pk
    cur_snark,      \* the running recursion snark
    task,           \* the RecursionTask: the batch snarks not folded yet
    n_rounds,       \* the round counter
    circuits,       \* every RecursionCircuit constructed, in order
    proofs,         \* every proof generated by gen_snark_shplonk, in order
    keygens,        \* number of params_and_pk calls
    fold_result,    \* what gen_recursion_snark returned
    \* ---- proof artifacts and verifiers (SpecVerify, SpecBundle) ----
    verifier,       \* the batch/bundle verifier (aggregator::Verifier)
    bundle_proof,   \* result of the last BundleProofV2::new_from_raw
    raw_input,      \* the arguments of that call
    verify_call,    \* the last verify_* call: operation, proof, outcome of the external parts
    verify_result,  \* what it returned
    evm_runs,       \* number of transactions deploy_and_call ran in that call
    \* ---- proof artifacts: construction, instances codec, dump and load (SpecArtifact) ----
    art_snark,      \* the snark the last artifact was constructed from
    artifact,       \* result of the last ProofV2::new / InnerProof::new
    decoded,        \* result of deserialize_instances / InnerProof::instances on that artifact
    reencoded,      \* result of serialize_instances on the decoded instances
    dumped,         \* the last ProofV2::dump call: directory, suffix and result
    loaded,         \* the last ProofV2::from_json call: directory, suffix and result
    \* ---- chunk info comparison (SpecChunk) ----
    compared,       \* the last compare_chunk_info call: arguments and result
    \* ---- blob consistency (SpecBlob) ----
    kzg_setup,      \* the static KZG_TRUSTED_SETUP: not yet loaded, or the loaded settings
    versioned,      \* the last kzg_to_versioned_hash call: commitment and result
    blob_calls,     \* the BlobConsistencyWitness::new calls made: arguments and results
    \* ---- concurrent load_or_gen calls (SpecConcurrent) ----
    threads,        \* per thread: its call, its position in the call, what it built and returned
    \* ---- the test harness: chunk_prove on the shared prover (SpecHarness) ----
    chunk_prover,   \* the static CHUNK_PROVER: the mutex and whether the prover was constructed
    callers,        \* per thread: its position in chunk_prove, its proof and what it returned
    \* ---- the EVM sanity check (SpecEvm) ----
    evm_call,       \* the last gen_evm_verifier call: arguments, outcomes of the EVM, result
    \* ---- the file helpers (SpecIo) ----
    io_call,        \* the last call of a file helper: the helper, the path and the result
    \* ---- the paths of cache keys (SpecKeys) ----
    key_paths,      \* the last two cache keys whose paths were formed, and the paths
    \* ---- deploy_and_call (SpecDeploy) ----
    evm_log,        \* the deploy_and_call invocations of the process, in order
    \* ---- conversions of proof artifacts into snarks (SpecConvert) ----
    conversions,    \* the Snark::try_from calls made: the artifact and the result
    \* ---- the bytes of a blob (SpecBlobBytes) ----
    blob_bytes_call \* the last get_blob_bytes call: the batch bytes and the result

cacheVars == <<disk, env, adapter_calls, last, prev, n_calls>>
foldVars == <<pc, batch_snarks, init_snark, circuit_for_pk, pk, cur_snark, task,
              n_rounds, circuits, proofs, keygens, fold_result>>
verifyVars == <<verifier, bundle_proof, raw_input, verify_call, verify_result,
                evm_runs>>
artifactVars == <<art_snark, artifact, decoded, reencoded, dumped, loaded>>
chunkVars == <<compared>>
blobVars == <<kzg_setup, versioned, blob_calls>>
concVars == <<threads>>
harnessVars == <<chunk_prover, callers>>
evmVars == <<evm_call>>
ioVars == <<io_call>>
otherVars == <<key_paths, evm_log, conversions, blob_bytes_call>>
restVars == <<harnessVars, evmVars, ioVars, otherVars>>
extVars == <<artifactVars, chunkVars, blobVars, concVars, restVars>>
vars == <<cacheVars, foldVars, verifyVars, extVars>>

-----------------------------------------------------------------------------
(* Bounds of the model. *)

\* Number of load_or_gen calls in a run of SpecCache.
MaxCalls == 2
\* Longest list of batch snarks handed to the fold.
MaxBatches == 3
\* Most field elements in the instances of a chunk or batch proof handed to a
\* verifier.
MaxElems == 1
\* Most field elements in a column of instances of a snark made into an artifact.
MaxVecLen == 2

-----------------------------------------------------------------------------
(* Results: Ok(value), Err(error), or a panic of the thread. *)

NoValue == "-"

Ok(v) == [tag |-> "Ok", val |-> v, err |-> NoValue]

Err(e) == [tag |-> "Err", val |-> NoValue, err |-> e]

Panic(msg) == [tag |-> "Panic", val |-> NoValue, err |-> msg]

NoResult == [tag |-> "None", val |-> NoValue, err |-> NoValue]


-----------------------------------------------------------------------------
(* Options, paths and files. *)

None == [some |-> FALSE, v |-> ""]

Some(x) == [some |-> TRUE, v |-> x]

\* Path::new(dir).join(file)
Join(dir, file) == dir \o "/" \o file

\* A snark as the cache sees it: protocol, proof bytes and instances, each named
\* by a string that records what the circuit adapter built it from.
NoSnark == [protocol |-> "", proof |-> "", instances |-> ""]

\* ProverError::IoReadWrite { path, source }: an i/o error with the path read
\* from or written to.  (ProverError::Io and ProverError::Serde, written "Io"
\* and "Serde", are the bare source errors: they hold no path.)
IoReadWrite(path) == "IoReadWrite{path=" \o path \o "}"

\* ProverError::JsonReadWrite { path, source }
JsonReadWrite(path) == "JsonReadWrite{path=" \o path \o "}"

\* serde_json::to_writer(&mut writer, value): the JSON text of a snark.
ToJson(snark) == [fmt |-> "json", snark |-> snark]

\* What File::create followed by a failed to_writer leaves behind: the file
\* exists, truncated or partly written, and does not decode.
PartialJson == [fmt |-> "partial", snark |-> NoSnark]

\* Deserialize::deserialize(deserializer): decodes exactly the well-formed JSON.
FromJson(content) ==
    IF content.fmt = "json" THEN Ok(content.snark) ELSE Err("Serde")

\* utils::read_json_deep: File::open fails when the file does not exist, the
\* deserializer fails when the contents are not the JSON of a snark.
read_json_deep(d, path) ==
    IF path \notin DOMAIN d THEN Err("Io") ELSE FromJson(d[path])

\* The disk with `content` stored at `path`.
FilePut(d, path, content) ==
    [p \in (DOMAIN d) \cup {path} |-> IF p = path THEN content ELSE d[p]]

\* Outcomes of the file system for one write_json call.
IoOutcomes == {"ok", "create_fail", "write_fail"}

\* utils::write_json: File::create(path)? then serde_json::to_writer(..)?.
\* Returns the result and the disk it leaves.
write_json(d, path, snark, io) ==
    CASE io = "create_fail" -> [res |-> Err("Io"), disk |-> d]
      [] io = "write_fail"  -> [res |-> Err("Serde"), disk |-> FilePut(d, path, PartialJson)]
      [] OTHER              -> [res |-> Ok(NoValue), disk |-> FilePut(d, path, ToJson(snark))]

-----------------------------------------------------------------------------
(* Layer configuration (prover/src/config.rs). *)

\* ASSETS_DIR.join("layerN.config"), with the default assets directory.
LayerConfigPaths ==
    [layer1 |-> "configs/layer1.config", layer2 |-> "configs/layer2.config",
     layer3 |-> "configs/layer3.config", layer4 |-> "configs/layer4.config",
     layer5 |-> "configs/layer5.config", layer6 |-> "configs/layer6.config"]

\* config::layer_config_path: panics on any id other than layer1..layer6.
layer_config_path(id) ==
    IF id \in DOMAIN LayerConfigPaths
    THEN Ok(LayerConfigPaths[id])
    ELSE Panic("Wrong id to get layer config path")

\* env::set_var(key, value)
SetVar(e, key, value) == [e EXCEPT ![key] = value]

EnvKeys == {"COMPRESSION_CONFIG", "AGGREGATION_CONFIG", "BUNDLE_CONFIG"}

Unset == "<unset>"


-----------------------------------------------------------------------------
(* The circuit adapter and the four gen_*_snark operations.  The circuits   *)
(* and the proof system are external: a generated snark is named after the  *)
(* stage, the layer id and the inputs it was built from, and whether        *)
(* construction and proving succeed is an outcome of the adapter.           *)

AdapterOutcomes == {"ok", "fail"}

\* The snark the adapter returns for a stage, a layer id and witness inputs.
Snark(stage, id, inputs) ==
    [protocol |-> stage \o "/" \o id,
     proof |-> "proof(" \o inputs \o ")",
     instances |-> "instances(" \o inputs \o ")"]

\* What a gen_*_snark call did: its result, the environment it leaves and the
\* number of times it invoked the circuit adapter.
GenOutcome(res, e, invoked) == [res |-> res, env |-> e, invoked |-> invoked]

\* Prover::gen_inner_snark
gen_inner_snark(e, id, witness_block, adapter) ==
    IF adapter = "ok"
    THEN GenOutcome(Ok(Snark("inner", id, ToString(witness_block))), e, 1)
    ELSE GenOutcome(Err("Adapter"), e, 1)

\* gen_comp_snark storing its configuration path in the slot of the
\* aggregation stage as well.
gen_comp_snark_SetsAggregationConfig(e, id, has_accumulator, degree, prev_snark, adapter) ==
    LET cfg == layer_config_path(id)
        e1 == SetVar(SetVar(e, "COMPRESSION_CONFIG", cfg.val), "AGGREGATION_CONFIG", cfg.val)
    IN  IF cfg.tag = "Panic" THEN GenOutcome(cfg, e, 0)
        ELSE IF adapter = "ok"
        THEN GenOutcome(Ok(Snark("compression", id,
                                 ToString(<<has_accumulator, degree, prev_snark>>))), e1, 1)
        ELSE GenOutcome(Err("Adapter"), e1, 1)

\* Prover::gen_comp_snark
gen_comp_snark(e, id, has_accumulator, degree, prev_snark, adapter) ==
    LET cfg == layer_config_path(id)
        e1 == SetVar(e, "COMPRESSION_CONFIG", cfg.val)
    IN  IF cfg.tag = "Panic" THEN GenOutcome(cfg, e, 0)
        ELSE IF adapter = "ok"
        THEN GenOutcome(Ok(Snark("compression", id,
                                 ToString(<<has_accumulator, degree, prev_snark>>))), e1, 1)
        ELSE GenOutcome(Err("Adapter"), e1, 1)

\* serde_json::from_slice::<Protocol>(bytes)
ProtocolDecodes(bytes) == bytes.fmt = "json"

\* Prover::gen_agg_snark
gen_agg_snark(e, id, degree, batch_info, halo2_protocol, sp1_protocol, previous_snarks, adapter) ==
    LET cfg == layer_config_path(id)
        e1 == SetVar(e, "AGGREGATION_CONFIG", cfg.val)
    IN  IF cfg.tag = "Panic" THEN GenOutcome(cfg, e, 0)
        ELSE IF ~ProtocolDecodes(halo2_protocol) \/ ~ProtocolDecodes(sp1_protocol)
        THEN GenOutcome(Err("Serde"), e1, 0)
        ELSE IF adapter = "ok"
        THEN GenOutcome(Ok(Snark("aggregation", id,
                                 ToString(<<degree, batch_info, previous_snarks>>))), e1, 1)
        ELSE GenOutcome(Err("Adapter"), e1, 1)

\* Prover::gen_recursion_snark, as one step (SpecFold takes it apart): the
\* non-empty assertion, the configuration slot, then the fold, which calls
\* gen_snark_shplonk once in every round, one round for every batch snark.  A
\* failing adapter fails in the first round.
gen_recursion_snark(e, id, degree, batches, adapter) ==
    LET cfg == layer_config_path(id)
        e1 == SetVar(e, "BUNDLE_CONFIG", cfg.val)
    IN  IF batches = <<>> THEN GenOutcome(Panic("assertion failed: !batch_snarks.is_empty()"), e, 0)
        ELSE IF cfg.tag = "Panic" THEN GenOutcome(cfg, e, 0)
        ELSE IF adapter = "ok"
        THEN GenOutcome(Ok(Snark("recursion", id, ToString(<<degree, batches>>))), e1,
                        Len(batches))
        ELSE GenOutcome(Err("Adapter"), e1, 1)

-----------------------------------------------------------------------------
(* The load_or_gen_*_snark operations. *)

\* The path formed without the layer id.
CachePath_NoId(stage, dir, id, name) ==
    Join(dir, stage \o "_snark_" \o name \o ".json")

\* Path::new(dir).join(format!("{stage}_snark_{id}_{name}.json"))
CachePath(stage, dir, id, name) ==
    Join(dir, stage \o "_snark_" \o id \o "_" \o name \o ".json")

\* What a load_or_gen call did.
CallOutcome(res, d, e, invoked, hit) ==
    [res |-> res, disk |-> d, env |-> e, invoked |-> invoked, hit |-> hit]

\* load_or_gen that generates and returns the snark without writing the cache
\* file.
LoadOrGen_NeverWrites(d, e, stage, name, id, output_dir, gen, io) ==
    LET path == CachePath(stage, output_dir.v, id, name)
        cached == read_json_deep(d, path)
    IN  IF output_dir.some /\ cached.tag = "Ok"
        THEN CallOutcome(Ok(cached.val), d, e, 0, TRUE)
        ELSE CallOutcome(gen.res, d, gen.env, gen.invoked, FALSE)

\* load_or_gen that regenerates and overwrites whatever the cache file holds.
LoadOrGen_IgnoresCache(d, e, stage, name, id, output_dir, gen, io) ==
    LET path == CachePath(stage, output_dir.v, id, name)
        written == write_json(d, path, gen.res.val, io)
    IN  IF gen.res.tag # "Ok"
        THEN CallOutcome(gen.res, d, gen.env, gen.invoked, FALSE)
        ELSE IF ~output_dir.some
        THEN CallOutcome(gen.res, d, gen.env, gen.invoked, FALSE)
        ELSE IF written.res.tag # "Ok"
        THEN CallOutcome(written.res, written.disk, gen.env, gen.invoked, FALSE)
        ELSE CallOutcome(gen.res, written.disk, gen.env, gen.invoked, FALSE)

\* load_or_gen that opens the cache file for writing before it reads it: a hit
\* returns the snark and leaves the file truncated.
LoadOrGen_TruncatesOnHit(d, e, stage, name, id, output_dir, gen, io) ==
    LET path == CachePath(stage, output_dir.v, id, name)
        cached == read_json_deep(d, path)
        written == write_json(d, path, gen.res.val, io)
    IN  IF output_dir.some /\ cached.tag = "Ok"
        THEN CallOutcome(Ok(cached.val), FilePut(d, path, PartialJson), e, 0, TRUE)
        ELSE IF gen.res.tag # "Ok"
        THEN CallOutcome(gen.res, d, gen.env, gen.invoked, FALSE)
        ELSE IF ~output_dir.some
        THEN CallOutcome(gen.res, d, gen.env, gen.invoked, FALSE)
        ELSE IF written.res.tag # "Ok"
        THEN CallOutcome(written.res, written.disk, gen.env, gen.invoked, FALSE)
        ELSE CallOutcome(gen.res, written.disk, gen.env, gen.invoked, FALSE)

\* load_or_gen that returns the generated snark even when writing the cache
\* file failed.
LoadOrGen_IgnoresWriteError(d, e, stage, name, id, output_dir, gen, io) ==
    LET path == CachePath(stage, output_dir.v, id, name)
        cached == read_json_deep(d, path)
        written == write_json(d, path, gen.res.val, io)
    IN  IF output_dir.some /\ cached.tag = "Ok"
        THEN CallOutcome(Ok(cached.val), d, e, 0, TRUE)
        ELSE IF gen.res.tag # "Ok"
        THEN CallOutcome(gen.res, d, gen.env, gen.invoked, FALSE)
        ELSE IF ~output_dir.some
        THEN CallOutcome(gen.res, d, gen.env, gen.invoked, FALSE)
        ELSE CallOutcome(gen.res, written.disk, gen.env, gen.invoked, FALSE)

\* load_or_gen writing the cache file a second time when the first write fails.
LoadOrGen_RetriesWrite(d, e, stage, name, id, output_dir, gen, io) ==
    LET path == CachePath(stage, output_dir.v, id, name)
        cached == read_json_deep(d, path)
        written == write_json(d, path, gen.res.val, io)
        again == write_json(written.disk, path, gen.res.val, "ok")
    IN  IF output_dir.some /\ cached.tag = "Ok"
        THEN CallOutcome(Ok(cached.val), d, e, 0, TRUE)
        ELSE IF gen.res.tag # "Ok"
        THEN CallOutcome(gen.res, d, gen.env, gen.invoked, FALSE)
        ELSE IF ~output_dir.some
        THEN CallOutcome(gen.res, d, gen.env, gen.invoked, FALSE)
        ELSE CallOutcome(gen.res, again.disk, gen.env, gen.invoked, FALSE)

\* load_or_gen creating the cache file before it generates the snark.
LoadOrGen_CreatesFileFirst(d, e, stage, name, id, output_dir, gen, io) ==
    LET path == CachePath(stage, output_dir.v, id, name)
        cached == read_json_deep(d, path)
        created == IF output_dir.some THEN FilePut(d, path, PartialJson) ELSE d
        written == write_json(created, path, gen.res.val, io)
    IN  IF output_dir.some /\ cached.tag = "Ok"
        THEN CallOutcome(Ok(cached.val), d, e, 0, TRUE)
        ELSE IF gen.res.tag # "Ok"
        THEN CallOutcome(gen.res, created, gen.env, gen.invoked, FALSE)
        ELSE IF ~output_dir.some
        THEN CallOutcome(gen.res, d, gen.env, gen.invoked, FALSE)
        ELSE IF written.res.tag # "Ok"
        THEN CallOutcome(written.res, written.disk, gen.env, gen.invoked, FALSE)
        ELSE CallOutcome(gen.res, written.disk, gen.env, gen.invoked, FALSE)

\* load_or_gen that evaluates the assertions of the generation before it
\* looks at the cache file.
LoadOrGen_AssertsBeforeCache(d, e, stage, name, id, output_dir, gen, io) ==
    LET path == CachePath(stage, output_dir.v, id, name)
        cached == read_json_deep(d, path)
        written == write_json(d, path, gen.res.val, io)
    IN  IF gen.res.tag = "Panic"
        THEN CallOutcome(gen.res, d, gen.env, gen.invoked, FALSE)
        ELSE IF output_dir.some /\ cached.tag = "Ok"
        THEN CallOutcome(Ok(cached.val), d, e, 0, TRUE)
        ELSE IF gen.res.tag # "Ok"
        THEN CallOutcome(gen.res, d, gen.env, gen.invoked, FALSE)
        ELSE IF ~output_dir.some
        THEN CallOutcome(gen.res, d, gen.env, gen.invoked, FALSE)
        ELSE IF written.res.tag # "Ok"
        THEN CallOutcome(written.res, written.disk, gen.env, gen.invoked, FALSE)
        ELSE CallOutcome(gen.res, written.disk, gen.env, gen.invoked, FALSE)

\* The body shared by load_or_gen_{inner,comp,agg,recursion}_snark: return the
\* snark read from the cache file if there is an output directory and the file
\* decodes; otherwise generate, write the file if there is an output
\* directory, and return the generated snark.  `gen` is the outcome of the
\* stage's gen_*_snark, evaluated only on a miss.
LoadOrGen(d, e, stage, name, id, output_dir, gen, io) ==
    LET path == CachePath(stage, output_dir.v, id, name)
        cached == read_json_deep(d, path)
        written == write_json(d, path, gen.res.val, io)
    IN  IF output_dir.some /\ cached.tag = "Ok"
        THEN CallOutcome(Ok(cached.val), d, e, 0, TRUE)
        ELSE IF gen.res.tag # "Ok"
        THEN CallOutcome(gen.res, d, gen.env, gen.invoked, FALSE)
        ELSE IF ~output_dir.some
        THEN CallOutcome(gen.res, d, gen.env, gen.invoked, FALSE)
        ELSE IF written.res.tag # "Ok"
        THEN CallOutcome(written.res, written.disk, gen.env, gen.invoked, FALSE)
        ELSE CallOutcome(gen.res, written.disk, gen.env, gen.invoked, FALSE)


-----------------------------------------------------------------------------
(* Inputs of the load_or_gen calls. *)

\* Layer ids handed to the calls; "inner" has no layer configuration.
Ids == {"inner", "layer1"}

\* Artifact names.
Names == {"0"}

OutputDirs == {None, Some("out")}

\* Witness blocks of the inner circuit.
Blocks == {"block1", "block2"}

\* (has_accumulator, degree, prev_snark) of a compression call.
CompInputs ==
    {[has_accumulator |-> TRUE, degree |-> 21, prev_snark |-> "s1"],
     [has_accumulator |-> FALSE, degree |-> 20, prev_snark |-> "s2"]}

ProtocolJson == [fmt |-> "json"]

ProtocolGarbage == [fmt |-> "garbage"]

\* (degree, batch_info, halo2_protocol, sp1_protocol, previous_snarks) of an
\* aggregation call.
AggInputs ==
    {[degree |-> 21, batch_info |-> "h1", halo2_protocol |-> ProtocolJson,
      sp1_protocol |-> ProtocolJson, previous_snarks |-> <<"c1">>],
     [degree |-> 21, batch_info |-> "h2", halo2_protocol |-> ProtocolJson,
      sp1_protocol |-> ProtocolJson, previous_snarks |-> <<"c1", "c2">>],
     [degree |-> 21, batch_info |-> "h1", halo2_protocol |-> ProtocolJson,
      sp1_protocol |-> ProtocolGarbage, previous_snarks |-> <<"c1">>]}

\* (degree, batch_snarks) of a recursion call.
RecursionInputs ==
    {[degree |-> 21, batch_snarks |-> <<>>],
     [degree |-> 21, batch_snarks |-> <<"b1">>],
     [degree |-> 21, batch_snarks |-> <<"b1", "b2">>]}

NoCall ==
    [stage |-> "", id |-> "", name |-> "", dir |-> None, inputs |-> "",
     before |-> NoResult, res |-> NoResult, invoked |-> 0, hit |-> FALSE]

-----------------------------------------------------------------------------
(* SpecCache: a sequence of load_or_gen calls on one prover and one disk. *)

CacheInit ==
    /\ disk = << >>
    /\ env = [k \in EnvKeys |-> Unset]
    /\ adapter_calls = 0
    /\ last = NoCall
    /\ prev = NoCall
    /\ n_calls = 0

\* A call returns: its effects take place and it becomes the last call.  The
\* record keeps what the cache file at the call's key decoded to beforehand.
Returned(stage, name, id, inputs, output_dir, out) ==
    /\ disk' = out.disk
    /\ env' = out.env
    /\ adapter_calls' = adapter_calls + out.invoked
    /\ prev' = last
    /\ last' = [stage |-> stage, id |-> id, name |-> name, dir |-> output_dir,
                inputs |-> inputs,
                before |-> read_json_deep(disk, CachePath(stage, output_dir.v, id, name)),
                res |-> out.res, invoked |-> out.invoked, hit |-> out.hit]
    /\ n_calls' = n_calls + 1

LoadOrGenInnerSnark ==
    /\ n_calls < MaxCalls
    /\ \E name \in Names, id \in Ids, witness_block \in Blocks,
          output_dir \in OutputDirs, adapter \in AdapterOutcomes, io \in IoOutcomes :
          Returned("inner", name, id, ToString(witness_block), output_dir,
                   LoadOrGen(disk, env, "inner", name, id, output_dir,
                             gen_inner_snark(env, id, witness_block, adapter), io))
    /\ UNCHANGED <<foldVars, verifyVars, extVars>>

LoadOrGenCompSnark ==
    /\ n_calls < MaxCalls
    /\ \E name \in Names, id \in Ids, in \in CompInputs,
          output_dir \in OutputDirs, adapter \in AdapterOutcomes, io \in IoOutcomes :
          Returned("compression", name, id, ToString(in), output_dir,
                   LoadOrGen(disk, env, "compression", name, id, output_dir,
                             gen_comp_snark(env, id, in.has_accumulator, in.degree,
                                            in.prev_snark, adapter), io))
    /\ UNCHANGED <<foldVars, verifyVars, extVars>>

LoadOrGenAggSnark ==
    /\ n_calls < MaxCalls
    /\ \E name \in Names, id \in Ids, in \in AggInputs,
          output_dir \in OutputDirs, adapter \in AdapterOutcomes, io \in IoOutcomes :
          Returned("aggregation", name, id, ToString(in), output_dir,
                   LoadOrGen(disk, env, "aggregation", name, id, output_dir,
                             gen_agg_snark(env, id, in.degree, in.batch_info,
                                           in.halo2_protocol, in.sp1_protocol,
                                           in.previous_snarks, adapter), io))
    /\ UNCHANGED <<foldVars, verifyVars, extVars>>

LoadOrGenRecursionSnark ==
    /\ n_calls < MaxCalls
    /\ \E name \in Names, id \in Ids, in \in RecursionInputs,
          output_dir \in OutputDirs, adapter \in AdapterOutcomes, io \in IoOutcomes :
          Returned("recursion", name, id, ToString(in), output_dir,
                   LoadOrGen(disk, env, "recursion", name, id, output_dir,
                             gen_recursion_snark(env, id, in.degree, in.batch_snarks,
                                                 adapter), io))
    /\ UNCHANGED <<foldVars, verifyVars, extVars>>

CacheNext ==
    \/ LoadOrGenInnerSnark
    \/ LoadOrGenCompSnark
    \/ LoadOrGenAggSnark
    \/ LoadOrGenRecursionSnark


-----------------------------------------------------------------------------
(* The recursion fold: Prover::gen_recursion_snark, statement by statement. *)

\* The batch snarks a fold may be handed.
Batches == {"b1", "b2"}

RECURSIVE SeqsUpTo(_, _)
\* All sequences over S of length at most n.
SeqsUpTo(S, n) ==
    IF n = 0 THEN {<<>>}
    ELSE LET shorter == SeqsUpTo(S, n - 1)
         IN  shorter \cup {Append(q, x) : q \in {r \in shorter : Len(r) = n - 1}, x \in S}

BatchLists == SeqsUpTo(Batches, MaxBatches)

\* The layer id of the recursion layer, LayerId::Layer5.id().
FoldLayerId == "layer5"

\* A recursion snark: the verifying key its initial state was built for (None
\* for the placeholder) and the rounds folded into it since, oldest first.
NoFoldSnark == [made |-> FALSE, vk |-> None, rounds |-> <<>>]

\* aggregator::initial_recursion_snark(params, vk, rng)
initial_recursion_snark(vk) == [made |-> TRUE, vk |-> vk, rounds |-> <<>>]

NoCircuit == [built |-> FALSE, app |-> "", previous |-> NoFoldSnark, round |-> 0]

\* RecursionCircuit::new(params, app_snark, previous, rng, round)
RecursionCircuit(app_snark, previous, round) ==
    [built |-> TRUE, app |-> app_snark, previous |-> previous, round |-> round]

NoPk == [made |-> FALSE, vk |-> "", circuit |-> NoCircuit]

\* The parameters and the proving key params_and_pk derives from a circuit;
\* the verifying key of the recursion circuit is pk.get_vk().
KeyOf(circuit) == [made |-> TRUE, vk |-> "vk-recursion", circuit |-> circuit]

\* gen_snark_shplonk(params, pk, circuit, rng, None): the proof of `circuit`
\* extends the snark the circuit was built on by this round.
gen_snark_shplonk(key, circuit) ==
    [made |-> TRUE, vk |-> circuit.previous.vk,
     rounds |-> Append(circuit.previous.rounds,
                       [app |-> circuit.app, round |-> circuit.round])]

\* RecursionTask::new(snarks): the batch snarks still to fold.
RecursionTask(snarks) == snarks

\* RecursionTask::completed
completed(t) == t = <<>>

\* RecursionTask::iter_snark: the next batch snark.
iter_snark(t) == Head(t)

\* RecursionTask::state_transition(round): one batch fewer.
state_transition(t, round) == Tail(t)

\* The snark the loop starts from, recursion.rs: initial_recursion_snark with
\* the verifying key of the proving key.
StartingSnark_Placeholder(key) == initial_recursion_snark(None)

StartingSnark(key) == initial_recursion_snark(Some(key.vk))

\* The task the loop starts from.
StartingTask_SkipFirst(batches) == RecursionTask(Tail(batches))

StartingTask(batches) == RecursionTask(batches)

FoldIdle ==
    /\ pc = "idle"
    /\ batch_snarks = <<>>
    /\ init_snark = NoFoldSnark
    /\ circuit_for_pk = NoCircuit
    /\ pk = NoPk
    /\ cur_snark = NoFoldSnark
    /\ task = <<>>
    /\ n_rounds = 0
    /\ circuits = <<>>
    /\ proofs = <<>>
    /\ keygens = 0
    /\ fold_result = NoResult

\* gen_recursion_snark is entered with a list of batch snarks.
FoldInit ==
    /\ pc = "start"
    /\ batch_snarks \in BatchLists
    /\ init_snark = NoFoldSnark
    /\ circuit_for_pk = NoCircuit
    /\ pk = NoPk
    /\ cur_snark = NoFoldSnark
    /\ task = <<>>
    /\ n_rounds = 0
    /\ circuits = <<>>
    /\ proofs = <<>>
    /\ keygens = 0
    /\ fold_result = NoResult

\* assert!(!batch_snarks.is_empty())
AssertNonEmpty_Missing ==
    /\ pc = "start"
    /\ pc' = "bootstrap"
    /\ UNCHANGED <<batch_snarks, init_snark, circuit_for_pk, pk, cur_snark, task,
                   n_rounds, circuits, proofs, keygens, fold_result>>
    /\ UNCHANGED <<cacheVars, verifyVars, extVars>>

AssertNonEmpty ==
    /\ pc = "start"
    /\ IF batch_snarks = <<>>
       THEN /\ pc' = "panicked"
            /\ fold_result' = Panic("assertion failed: !batch_snarks.is_empty()")
       ELSE /\ pc' = "bootstrap"
            /\ UNCHANGED fold_result
    /\ UNCHANGED <<batch_snarks, init_snark, circuit_for_pk, pk, cur_snark, task,
                   n_rounds, circuits, proofs, keygens>>
    /\ UNCHANGED <<cacheVars, verifyVars, extVars>>

\* env::set_var("BUNDLE_CONFIG", layer_config_path(id)) and the placeholder
\* initial_recursion_snark(params, None, rng).
BuildPlaceholder ==
    /\ pc = "bootstrap"
    /\ env' = SetVar(env, "BUNDLE_CONFIG", layer_config_path(FoldLayerId).val)
    /\ init_snark' = initial_recursion_snark(None)
    /\ pc' = "circuit_for_pk"
    /\ UNCHANGED <<batch_snarks, circuit_for_pk, pk, cur_snark, task, n_rounds,
                   circuits, proofs, keygens, fold_result>>
    /\ UNCHANGED <<disk, adapter_calls, last, prev, n_calls, verifyVars, extVars>>

\* RecursionCircuit::new(params, batch_snarks[0].clone(), init_snark, rng, 0);
\* indexing an empty slice panics.
BuildCircuitForPk ==
    /\ pc = "circuit_for_pk"
    /\ IF batch_snarks = <<>>
       THEN /\ pc' = "panicked"
            /\ fold_result' = Panic("index out of bounds")
            /\ UNCHANGED <<circuit_for_pk, circuits>>
       ELSE /\ circuit_for_pk' = RecursionCircuit(batch_snarks[1], init_snark, 0)
            /\ circuits' = Append(circuits, circuit_for_pk')
            /\ pc' = "keygen"
            /\ UNCHANGED fold_result
    /\ UNCHANGED <<batch_snarks, init_snark, pk, cur_snark, task, n_rounds,
                   proofs, keygens>>
    /\ UNCHANGED <<cacheVars, verifyVars, extVars>>

\* self.params_and_pk(id, degree, &circuit_for_pk)?
ParamsAndPk ==
    /\ pc = "keygen"
    /\ keygens' = keygens + 1
    /\ \E outcome \in AdapterOutcomes :
          IF outcome = "ok"
          THEN /\ pk' = KeyOf(circuit_for_pk)
               /\ pc' = "init"
               /\ UNCHANGED fold_result
          ELSE /\ pc' = "failed"
               /\ fold_result' = Err("Keygen")
               /\ UNCHANGED pk
    /\ UNCHANGED <<batch_snarks, init_snark, circuit_for_pk, cur_snark, task,
                   n_rounds, circuits, proofs>>
    /\ UNCHANGED <<cacheVars, verifyVars, extVars>>

\* The legitimate starting state, the task over all the batch snarks and
\* n_rounds = 0.
StartLoop ==
    /\ pc = "init"
    /\ cur_snark' = StartingSnark(pk)
    /\ task' = StartingTask(batch_snarks)
    /\ n_rounds' = 0
    /\ pc' = "loop"
    /\ UNCHANGED <<batch_snarks, init_snark, circuit_for_pk, pk, circuits, proofs,
                   keygens, fold_result>>
    /\ UNCHANGED <<cacheVars, verifyVars, extVars>>

\* An iteration that builds its circuit on the initial snark, not on the
\* snark of the round before.
Round_FromInitialSnark ==
    /\ pc = "loop"
    /\ ~completed(task)
    /\ LET circuit == RecursionCircuit(iter_snark(task), StartingSnark(pk), n_rounds)
       IN  /\ circuits' = Append(circuits, circuit)
           /\ \E outcome \in AdapterOutcomes :
                 IF outcome = "ok"
                 THEN /\ cur_snark' = gen_snark_shplonk(pk, circuit)
                      /\ proofs' = Append(proofs, [circuit |-> circuit, pk |-> pk])
                      /\ n_rounds' = n_rounds + 1
                      /\ task' = RecursionTask(state_transition(task, n_rounds'))
                      /\ UNCHANGED <<pc, fold_result>>
                 ELSE /\ pc' = "failed"
                      /\ fold_result' = Err("Adapter")
                      /\ UNCHANGED <<cur_snark, proofs, n_rounds, task>>
    /\ UNCHANGED <<batch_snarks, init_snark, circuit_for_pk, pk, keygens>>
    /\ UNCHANGED <<cacheVars, verifyVars, extVars>>

\* An iteration that derives a proving key from its own circuit.
Round_RegeneratesKey ==
    /\ pc = "loop"
    /\ ~completed(task)
    /\ LET circuit == RecursionCircuit(iter_snark(task), cur_snark, n_rounds)
       IN  /\ circuits' = Append(circuits, circuit)
           /\ pk' = KeyOf(circuit)
           /\ keygens' = keygens + 1
           /\ \E outcome \in AdapterOutcomes :
                 IF outcome = "ok"
                 THEN /\ cur_snark' = gen_snark_shplonk(pk', circuit)
                      /\ proofs' = Append(proofs, [circuit |-> circuit, pk |-> pk'])
                      /\ n_rounds' = n_rounds + 1
                      /\ task' = RecursionTask(state_transition(task, n_rounds'))
                      /\ UNCHANGED <<pc, fold_result>>
                 ELSE /\ pc' = "failed"
                      /\ fold_result' = Err("Adapter")
                      /\ UNCHANGED <<cur_snark, proofs, n_rounds, task>>
    /\ UNCHANGED <<batch_snarks, init_snark, circuit_for_pk>>
    /\ UNCHANGED <<cacheVars, verifyVars, extVars>>

\* An iteration that goes on to the next batch snark when its proof fails.
Round_SkipsFailedRound ==
    /\ pc = "loop"
    /\ ~completed(task)
    /\ LET circuit == RecursionCircuit(iter_snark(task), cur_snark, n_rounds)
       IN  /\ circuits' = Append(circuits, circuit)
           /\ \E outcome \in AdapterOutcomes :
                 IF outcome = "ok"
                 THEN /\ cur_snark' = gen_snark_shplonk(pk, circuit)
                      /\ proofs' = Append(proofs, [circuit |-> circuit, pk |-> pk])
                      /\ n_rounds' = n_rounds + 1
                      /\ task' = RecursionTask(state_transition(task, n_rounds'))
                      /\ UNCHANGED <<pc, fold_result>>
                 ELSE /\ n_rounds' = n_rounds + 1
                      /\ task' = RecursionTask(state_transition(task, n_rounds'))
                      /\ UNCHANGED <<pc, fold_result, cur_snark, proofs>>
    /\ UNCHANGED <<batch_snarks, init_snark, circuit_for_pk, pk, keygens>>
    /\ UNCHANGED <<cacheVars, verifyVars, extVars>>

\* One iteration of while !task.completed() { .. }.
Round ==
    /\ pc = "loop"
    /\ ~completed(task)
    /\ LET circuit == RecursionCircuit(iter_snark(task), cur_snark, n_rounds)
       IN  /\ circuits' = Append(circuits, circuit)
           /\ \E outcome \in AdapterOutcomes :
                 IF outcome = "ok"
                 THEN /\ cur_snark' = gen_snark_shplonk(pk, circuit)
                      /\ proofs' = Append(proofs, [circuit |-> circuit, pk |-> pk])
                      /\ n_rounds' = n_rounds + 1
                      /\ task' = RecursionTask(state_transition(task, n_rounds'))
                      /\ UNCHANGED <<pc, fold_result>>
                 ELSE /\ pc' = "failed"
                      /\ fold_result' = Err("Adapter")
                      /\ UNCHANGED <<cur_snark, proofs, n_rounds, task>>
    /\ UNCHANGED <<batch_snarks, init_snark, circuit_for_pk, pk, keygens>>
    /\ UNCHANGED <<cacheVars, verifyVars, extVars>>

\* The loop ends: Ok(cur_snark).
ReturnFold ==
    /\ pc = "loop"
    /\ completed(task)
    /\ fold_result' = Ok(cur_snark)
    /\ pc' = "done"
    /\ UNCHANGED <<batch_snarks, init_snark, circuit_for_pk, pk, cur_snark, task,
                   n_rounds, circuits, proofs, keygens>>
    /\ UNCHANGED <<cacheVars, verifyVars, extVars>>

\* The number of times gen_recursion_snark is called for one list of batch snarks.
MaxFoldAttempts == 2

\* The caller calls gen_recursion_snark again after an error.  The locals of
\* the new call start afresh; `keygens` keeps counting over the calls.
FoldRetry ==
    /\ pc = "failed"
    /\ keygens < MaxFoldAttempts
    /\ pc' = "start"
    /\ init_snark' = NoFoldSnark
    /\ circuit_for_pk' = NoCircuit
    /\ pk' = NoPk
    /\ cur_snark' = NoFoldSnark
    /\ task' = <<>>
    /\ n_rounds' = 0
    /\ circuits' = <<>>
    /\ proofs' = <<>>
    /\ fold_result' = NoResult
    /\ UNCHANGED <<batch_snarks, keygens>>
    /\ UNCHANGED <<cacheVars, verifyVars, extVars>>

FoldNext ==
    \/ AssertNonEmpty
    \/ BuildPlaceholder
    \/ BuildCircuitForPk
    \/ ParamsAndPk
    \/ StartLoop
    \/ Round
    \/ ReturnFold

FoldReturned == pc \in {"done", "failed", "panicked"}


-----------------------------------------------------------------------------
(* Bytes and field elements.  A byte string is a sequence over 0..255.  An  *)
(* element of the scalar field Fr is held as its canonical 32-byte          *)
(* little-endian representation (Fr::to_bytes).                             *)

\* The modulus of Fr (bn256), most significant byte first:
\* 0x30644e72e131a029b85045b68181585d2833e84879b9709143e1f593f0000001
FrModulusBE ==
    <<48, 100, 78, 114, 225, 49, 160, 41, 184, 80, 69, 182, 129, 129, 88, 93,
      40, 51, 232, 72, 121, 185, 112, 145, 67, 225, 245, 147, 240, 0, 0, 1>>

Reverse(b) == [i \in 1..Len(b) |-> b[Len(b) + 1 - i]]

\* a < b for two byte strings of the same length read as big-endian numbers.
LessBE(a, b) ==
    \E i \in 1..Len(a) : a[i] < b[i] /\ \A j \in 1..(i - 1) : a[j] = b[j]

\* utils::deserialize_fr: Fr::from_repr(buf.try_into().unwrap()).unwrap().
\* The conversion to [u8; 32] fails unless there are exactly 32 bytes, and
\* from_repr yields nothing unless the little-endian value is below the modulus.
deserialize_fr(buf) ==
    IF Len(buf) # 32 THEN Panic("unwrap on Err: not 32 bytes")
    ELSE IF ~LessBE(Reverse(buf), FrModulusBE)
    THEN Panic("unwrap on None: not a field element")
    ELSE Ok(buf)

\* utils::serialize_fr: f.to_bytes().to_vec()
serialize_fr(f) == f

RECURSIVE Chunks(_, _)
\* slice::chunks(n): consecutive pieces of n bytes, the last one maybe shorter.
Chunks(b, n) ==
    IF Len(b) = 0 THEN <<>>
    ELSE IF Len(b) <= n THEN <<b>>
    ELSE <<SubSeq(b, 1, n)>> \o Chunks(SubSeq(b, n + 1, Len(b)), n)

\* ProofV2::deserialize_instances: every 32-byte chunk, reversed, through
\* deserialize_fr; one panic is a panic of the whole.
deserialize_instances(instances) ==
    LET pieces == Chunks(instances, 32)
        elems == [i \in 1..Len(pieces) |-> deserialize_fr(Reverse(pieces[i]))]
    IN  IF \E i \in 1..Len(pieces) : elems[i].tag = "Panic"
        THEN elems[CHOOSE i \in 1..Len(pieces) :
                      /\ elems[i].tag = "Panic"
                      /\ \A j \in 1..(i - 1) : elems[j].tag # "Panic"]
        ELSE Ok(<<[i \in 1..Len(pieces) |-> elems[i].val]>>)

Repeat(b, n) == [i \in 1..(n * Len(b)) |-> b[((i - 1) % Len(b)) + 1]]

\* Big-endian encodings of sample values: 0, 1, the modulus minus one, the
\* modulus itself and 2^256 - 1 (the last two are not field elements).
ZeroBE == [i \in 1..32 |-> 0]

OneBE == [i \in 1..32 |-> IF i = 32 THEN 1 ELSE 0]

ModulusMinusOneBE == [i \in 1..32 |-> IF i = 32 THEN 0 ELSE FrModulusBE[i]]

AllOnesBE == [i \in 1..32 |-> 255]

WordSamples == {ZeroBE, OneBE, ModulusMinusOneBE, FrModulusBE, AllOnesBE}


-----------------------------------------------------------------------------
(* Errors of the prover crate (error.rs, aggregator/error.rs). *)

ProverErrorValue(type, kind, a, b, msg) ==
    [type |-> type, kind |-> kind, a |-> a, b |-> b, msg |-> msg]

\* BatchProverError::PublicInputsMismatch(expected, got)
PublicInputsMismatch(expected, got) ==
    ProverErrorValue("BatchProverError", "PublicInputsMismatch", expected, got, "")

\* BatchProverError::Verification
BatchVerification == ProverErrorValue("BatchProverError", "Verification", 0, 0, "")

\* BatchProverError::VerifierCodeMissing
VerifierCodeMissing == ProverErrorValue("BatchProverError", "VerifierCodeMissing", 0, 0, "")

\* BatchProverError::Custom(msg)
BatchCustom(msg) == ProverErrorValue("BatchProverError", "Custom", 0, 0, msg)

\* ChunkProverError::Verification
ChunkVerification == ProverErrorValue("ChunkProverError", "Verification", 0, 0, "")

\* ProverError::Custom(msg)
ProverCustom(msg) == ProverErrorValue("ProverError", "Custom", 0, 0, msg)

-----------------------------------------------------------------------------
(* Proof artifacts (proof/proof_v2.rs). *)

\* The number of scalar field elements used to encode the KZG accumulator.
ACCUMULATOR_LEN == 12

ACCUMULATOR_BYTES == ACCUMULATOR_LEN * 32

\* The public input (excluding the accumulator) of the Layer-6 circuit.
PUBLIC_INPUT_LEN == 13

PUBLIC_INPUT_BYTES == PUBLIC_INPUT_LEN * 32

\* short_git_version()
GitVersion == "abcdef0"

NoBytes == [some |-> FALSE, v |-> <<>>]

NoProtocol == [fmt |-> "absent"]

\* ProofV2 { inner, proof, instances, vk, git_version }
ProofV2(inner, proof, instances, vk) ==
    [inner |-> inner, proof |-> proof, instances |-> instances, vk |-> vk,
     git_version |-> GitVersion]

\* The layer metadata: its NAME and, for chunk and batch proofs, the bytes of
\* the snark protocol.
BundleProofV2Metadata == [NAME |-> "bundle", protocol |-> NoProtocol]

ChunkProofV2Metadata(protocol) == [NAME |-> "chunk", protocol |-> protocol]

BatchProofV2Metadata(protocol) == [NAME |-> "batch", protocol |-> protocol]

NoProof == ProofV2([NAME |-> "", protocol |-> NoProtocol], <<>>, <<>>, <<>>)

\* Proof::protocol: None for a bundle, serde_json::from_slice(..).ok() otherwise.
Proof_protocol(inner) ==
    IF inner.NAME = "bundle" THEN [some |-> FALSE, v |-> NoProtocol]
    ELSE IF ProtocolDecodes(inner.protocol) THEN [some |-> TRUE, v |-> inner.protocol]
    ELSE [some |-> FALSE, v |-> NoProtocol]

\* impl TryFrom<&ProofV2<Inner>> for Snark
SnarkTryFrom(value) ==
    LET protocol == Proof_protocol(value.inner)
        instances == deserialize_instances(value.instances)
    IN  IF ~protocol.some
        THEN Err(ProverCustom("protocol either not found or cannot be deserialized successfully"))
        ELSE IF instances.tag = "Panic" THEN instances
        ELSE Ok([protocol |-> protocol.v, proof |-> value.proof,
                 instances |-> instances.val])

\* BundleProofV2::new_from_raw
new_from_raw_PublicInputsOnly(proof, instances, vk) ==
    LET expected_len == PUBLIC_INPUT_BYTES
        got_len == Len(instances)
    IN  IF got_len # expected_len
        THEN Err(PublicInputsMismatch(expected_len, got_len))
        ELSE Ok(ProofV2(BundleProofV2Metadata, proof, instances, vk))

new_from_raw(proof, instances, vk) ==
    LET expected_len == ACCUMULATOR_BYTES + PUBLIC_INPUT_BYTES
        got_len == Len(instances)
    IN  IF got_len # expected_len
        THEN Err(PublicInputsMismatch(expected_len, got_len))
        ELSE Ok(ProofV2(BundleProofV2Metadata, proof, instances, vk))

\* BundleProofV2::calldata: the instances, then the proof.
calldata_ProofFirst(bundle) == bundle.proof \o bundle.instances

calldata(bundle) == bundle.instances \o bundle.proof

\* The calldata of the legacy BundleProof built from the same InnerProof
\* (proof, instances, vk): the instances bytes followed by the proof bytes.
LegacyBundleCalldata(inner_proof) == inner_proof.instances \o inner_proof.proof

-----------------------------------------------------------------------------
(* The EVM (utils/evm.rs).  Whether a transaction succeeds, reverts or      *)
(* halts is decided by the contract and revm; a transaction revm rejects    *)
(* makes transact_commit() return an error, which deploy_and_call unwraps.  *)

DeployOutcomes == {"success", "revert", "halt", "tx_error"}

CallOutcomes == {"success", "revert", "halt"}

\* What deploy_and_call did: its result, the transactions it ran and the data
\* of the call transaction.
EvmOutcome(res, runs, data) == [res |-> res, runs |-> runs, data |-> data]

\* InMemoryDB::default(): no account, no code; the sender has made no
\* transaction.
InMemoryDB_default == [nonce |-> 0, code |-> << >>]

\* Evm::transact_commit of a create transaction on `db`: the execution
\* result, the address of the contract and the database after the commit.  The
\* address of a created contract is fixed by the sender and its nonce.
transact_create(db, deployment_code, outcome) ==
    CASE outcome = "tx_error" -> [result |-> "EVMError", contract |-> -1, db |-> db]
      [] outcome = "success" ->
            [result |-> "Success", contract |-> db.nonce,
             db |-> [nonce |-> db.nonce + 1,
                     code |-> db.code @@ (db.nonce :> deployment_code)]]
      [] outcome = "revert" ->
            [result |-> "Revert", contract |-> -1, db |-> [db EXCEPT !.nonce = @ + 1]]
      [] OTHER ->
            [result |-> "Halt", contract |-> -1, db |-> [db EXCEPT !.nonce = @ + 1]]

\* Evm::transact_commit of a call transaction to `contract` on `db`.
transact_call(db, contract, data, outcome) ==
    [result |-> CASE outcome = "success" -> "Success"
                  [] outcome = "revert" -> "Revert"
                  [] OTHER -> "Halt",
     tx |-> [kind |-> "call", to |-> contract, data |-> data, db |-> db],
     db |-> [db EXCEPT !.nonce = @ + 1]]

\* What deploy_and_call did: its result, the number of transactions it ran,
\* the data of the call transaction, and the transactions with the database
\* each one ran on.
DeployOutcome(res, data, txs) == [res |-> res, runs |-> Len(txs), data |-> data, txs |-> txs]

\* deploy_and_call running the call transaction whatever the deployment did.
deploy_and_call_CallsAnyway(deployment_code, data, deploy, call) ==
    LET db == InMemoryDB_default
        create == [kind |-> "create", to |-> -1, data |-> deployment_code, db |-> db]
        created == transact_create(db, deployment_code, deploy)
        called == transact_call(created.db, created.contract, data, call)
    IN  CASE called.result = "Success" /\ created.result = "Success" ->
                DeployOutcome(Ok("gas_used"), data, <<create, called.tx>>)
          [] called.result = "Revert" ->
                DeployOutcome(Err("Contract call transaction reverts"), data,
                              <<create, called.tx>>)
          [] OTHER ->
                DeployOutcome(Err("Contract call transaction halts unexpectedly"), data,
                              <<create, called.tx>>)

\* utils::deploy_and_call
deploy_and_call(deployment_code, data, deploy, call) ==
    LET db == InMemoryDB_default
        create == [kind |-> "create", to |-> -1, data |-> deployment_code, db |-> db]
        created == transact_create(db, deployment_code, deploy)
        called == transact_call(created.db, created.contract, data, call)
    IN  CASE created.result = "EVMError" ->
                DeployOutcome(Panic("unwrap on Err: EVMError"), <<>>, <<create>>)
          [] created.result = "Revert" ->
                DeployOutcome(Err("Contract deployment transaction reverts"), <<>>,
                              <<create>>)
          [] created.result = "Halt" ->
                DeployOutcome(Err("Contract deployment transaction halts unexpectedly"),
                              <<>>, <<create>>)
          [] OTHER ->
                CASE called.result = "Success" ->
                        DeployOutcome(Ok("gas_used"), data, <<create, called.tx>>)
                  [] called.result = "Revert" ->
                        DeployOutcome(Err("Contract call transaction reverts"), data,
                                      <<create, called.tx>>)
                  [] OTHER ->
                        DeployOutcome(Err("Contract call transaction halts unexpectedly"),
                                      data, <<create, called.tx>>)

-----------------------------------------------------------------------------
(* Verifiers (aggregator/verifier.rs, zkevm/verifier.rs). *)

NoVerifier == [constructed |-> FALSE, vk |-> <<>>, deployment_code |-> NoBytes]

\* aggregator::Verifier { inner, deployment_code }
Verifier(vk, deployment_code) ==
    [constructed |-> TRUE, vk |-> vk, deployment_code |-> deployment_code]

\* utils::read
read(d, path) == IF path \in DOMAIN d THEN Ok(d[path]) ELSE Err(IoReadWrite(path))

\* utils::read_json: read(path)?, then serde_json::from_slice.
read_json(d, path) ==
    LET bytes == read(d, path)
    IN  IF bytes.tag # "Ok" THEN bytes
        ELSE IF FromJson(bytes.val).tag = "Ok" THEN FromJson(bytes.val)
        ELSE Err(JsonReadWrite(path))

\* utils::try_read: read(path).ok()
try_read(d, path) ==
    LET r == read(d, path)
    IN  IF r.tag = "Ok" THEN Some(r.val) ELSE NoBytes

\* utils::force_read: panics if the file cannot be read.
force_read(d, path) ==
    LET r == read(d, path)
    IN  IF r.tag = "Ok" THEN r ELSE Panic("no file found!")

\* utils::deserialize_vk, on the samples: the empty file is no verifying key.
VkDecodes(raw_vk) == Len(raw_vk) > 0

\* consts::batch_vk_filename() and DEPLOYMENT_CODE_FILENAME, their defaults.
BatchVkFilename == "vk_batch_agg.vkey"

DeploymentCodeFilename == "evm_verifier.bin"

\* aggregator::Verifier::verify_batch_proof; `accept` is what
\* self.inner.verify_snark(snark) returns.
verify_batch_proof(v, batch_proof, accept) ==
    LET snark == SnarkTryFrom(batch_proof)
    IN  IF snark.tag # "Ok" THEN snark
        ELSE IF accept THEN Ok(NoValue)
        ELSE Err(BatchVerification)

\* zkevm::Verifier::verify_chunk_proof
verify_chunk_proof(proof, accept) ==
    LET snark == SnarkTryFrom(proof)
    IN  IF snark.tag # "Ok" THEN snark
        ELSE IF accept THEN Ok(NoValue)
        ELSE Err(ChunkVerification)

\* aggregator::Verifier::verify_bundle_proof: its result, with the
\* transactions run and the data of the call transaction.
verify_bundle_proof_MissingIsFailure(v, bundle, deploy, call) ==
    LET ran == deploy_and_call(v.deployment_code.v, calldata(bundle), deploy, call)
    IN  IF v.deployment_code.some
        THEN IF ran.res.tag = "Err"
             THEN EvmOutcome(Err(BatchCustom(ran.res.err)), ran.runs, ran.data)
             ELSE IF ran.res.tag = "Panic" THEN EvmOutcome(ran.res, ran.runs, ran.data)
             ELSE EvmOutcome(Ok(NoValue), ran.runs, ran.data)
        ELSE EvmOutcome(Err(BatchCustom("Contract call transaction reverts")), 0, <<>>)

verify_bundle_proof_IgnoresCall(v, bundle, deploy, call) ==
    LET ran == deploy_and_call(v.deployment_code.v, calldata(bundle), deploy, "success")
    IN  IF v.deployment_code.some
        THEN IF ran.res.tag = "Err"
             THEN EvmOutcome(Err(BatchCustom(ran.res.err)), ran.runs, ran.data)
             ELSE IF ran.res.tag = "Panic" THEN EvmOutcome(ran.res, ran.runs, ran.data)
             ELSE EvmOutcome(Ok(NoValue), ran.runs, ran.data)
        ELSE EvmOutcome(Err(VerifierCodeMissing), 0, <<>>)

verify_bundle_proof(v, bundle, deploy, call) ==
    LET ran == deploy_and_call(v.deployment_code.v, calldata(bundle), deploy, call)
    IN  IF v.deployment_code.some
        THEN IF ran.res.tag = "Err"
             THEN EvmOutcome(Err(BatchCustom(ran.res.err)), ran.runs, ran.data)
             ELSE IF ran.res.tag = "Panic" THEN EvmOutcome(ran.res, ran.runs, ran.data)
             ELSE EvmOutcome(Ok(NoValue), ran.runs, ran.data)
        ELSE EvmOutcome(Err(VerifierCodeMissing), 0, <<>>)


\* aggregator::Verifier::from_params_and_assets: the result and the
\* environment it leaves.  `has_params` tells whether the parameter map holds
\* the Layer-4 degree.
from_params_and_assets(d, e, assets_dir, has_params) ==
    LET raw_vk == force_read(d, Join(assets_dir, BatchVkFilename))
        deployment_code == try_read(d, Join(assets_dir, DeploymentCodeFilename))
        e1 == SetVar(e, "COMPRESSION_CONFIG", LayerConfigPaths["layer4"])
    IN  IF raw_vk.tag = "Panic" THEN [res |-> raw_vk, env |-> e]
        ELSE IF ~has_params
        THEN [res |-> Panic("KZG params don't contain degree"), env |-> e1]
        ELSE IF ~VkDecodes(raw_vk.val)
        THEN [res |-> Panic("failed to deserialize vk"), env |-> e1]
        ELSE [res |-> Ok(Verifier(raw_vk.val, deployment_code)), env |-> e1]

-----------------------------------------------------------------------------
(* Inputs of SpecVerify. *)

SampleVk == <<42>>

SampleCode == <<96, 128>>

\* Assets directories: "prod" holds the verifying key and the deployment code,
\* "dev" the verifying key alone, "bare" the deployment code alone, and in
\* "stale" the verifying key file is empty.
AssetsDirs == {"prod", "dev", "bare", "stale"}

AssetsDisk ==
    FilePut(FilePut(FilePut(FilePut(FilePut(FilePut(<< >>,
        Join("prod", BatchVkFilename), SampleVk),
        Join("prod", DeploymentCodeFilename), SampleCode),
        Join("dev", BatchVkFilename), SampleVk),
        Join("bare", DeploymentCodeFilename), SampleCode),
        Join("stale", BatchVkFilename), <<>>),
        Join("stale", DeploymentCodeFilename), SampleCode)

RawProofs == {<<>>, <<7, 9, 11>>}

\* Instances bytes handed to new_from_raw: n whole words and t more bytes, for
\* the lengths 0, 768, 799, 800, 801 and 832.
RawInstances ==
    {Repeat(w, nt[1]) \o SubSeq(ZeroBE, 1, nt[2]) :
        w \in {OneBE, AllOnesBE},
        nt \in {<<0, 0>>, <<24, 0>>, <<24, 31>>, <<25, 0>>, <<25, 1>>, <<26, 0>>}}

\* Words of the instances of the chunk and batch proofs handed to a verifier:
\* two field elements and one word that is none.
VerifyWords == {OneBE, ModulusMinusOneBE, FrModulusBE}

RECURSIVE Concat(_)
Concat(ss) == IF ss = <<>> THEN <<>> ELSE Head(ss) \o Concat(Tail(ss))

\* Instances bytes of those proofs: at most MaxElems words, then no byte or one.
VerifyInstances ==
    {Concat(ws) \o t : ws \in SeqsUpTo(VerifyWords, MaxElems), t \in {<<>>, <<5>>}}

ProtocolBytes == {ProtocolJson, ProtocolGarbage}

BatchProofs ==
    {ProofV2(BatchProofV2Metadata(pr), <<7, 9, 11>>, in, SampleVk) :
        pr \in ProtocolBytes, in \in VerifyInstances}

ChunkProofs ==
    {ProofV2(ChunkProofV2Metadata(pr), <<7, 9, 11>>, in, SampleVk) :
        pr \in ProtocolBytes, in \in VerifyInstances}

NoRawInput == [made |-> FALSE, proof |-> <<>>, instances |-> <<>>, vk |-> <<>>]

\* A call made on a verifier: the operation, the verifier as it was, the proof
\* and the outcomes of the external parts (verify_snark, the EVM).
VerifyCall(op, v, proof, accept, deploy, call, sent) ==
    [op |-> op, verifier |-> v, proof |-> proof, accept |-> accept,
     deploy |-> deploy, call |-> call, sent |-> sent]

NoVerifyCall == VerifyCall("", NoVerifier, NoProof, FALSE, "", "", <<>>)

-----------------------------------------------------------------------------
(* SpecVerify: verifiers are built and proofs are handed to them. *)

VerifyIdle ==
    /\ verifier = NoVerifier
    /\ bundle_proof = NoResult
    /\ raw_input = NoRawInput
    /\ verify_call = NoVerifyCall
    /\ verify_result = NoResult
    /\ evm_runs = 0

VerifyInit ==
    /\ disk = AssetsDisk
    /\ env = [k \in EnvKeys |-> Unset]
    /\ adapter_calls = 0
    /\ last = NoCall
    /\ prev = NoCall
    /\ n_calls = 0
    /\ VerifyIdle

FromParamsAndAssets ==
    /\ \E assets_dir \in AssetsDirs, has_params \in BOOLEAN :
          LET out == from_params_and_assets(disk, env, assets_dir, has_params)
          IN  /\ env' = out.env
              /\ verifier' = IF out.res.tag = "Ok" THEN out.res.val ELSE verifier
              /\ verify_call' = VerifyCall("from_params_and_assets", verifier, NoProof,
                                           FALSE, "", "", <<>>)
              /\ verify_result' = IF out.res.tag = "Ok" THEN Ok(NoValue) ELSE out.res
    /\ evm_runs' = 0
    /\ UNCHANGED <<bundle_proof, raw_input>>
    /\ UNCHANGED <<disk, adapter_calls, last, prev, n_calls, foldVars, extVars>>

\* aggregator::Verifier::new(params, vk, deployment_code)
VerifierNew ==
    /\ verifier' = Verifier(SampleVk, Some(SampleCode))
    /\ verify_call' = VerifyCall("new", verifier, NoProof, FALSE, "", "", <<>>)
    /\ verify_result' = Ok(NoValue)
    /\ evm_runs' = 0
    /\ UNCHANGED <<bundle_proof, raw_input>>
    /\ UNCHANGED <<cacheVars, foldVars, extVars>>

NewFromRaw ==
    /\ \E proof \in RawProofs, instances \in RawInstances :
          /\ raw_input' = [made |-> TRUE, proof |-> proof, instances |-> instances,
                           vk |-> SampleVk]
          /\ bundle_proof' = new_from_raw(proof, instances, SampleVk)
    /\ UNCHANGED <<verifier, verify_call, verify_result, evm_runs>>
    /\ UNCHANGED <<cacheVars, foldVars, extVars>>

VerifyBatchProof ==
    /\ verifier.constructed
    /\ \E batch_proof \in BatchProofs, accept \in BOOLEAN :
          /\ verify_call' = VerifyCall("verify_batch_proof", verifier, batch_proof,
                                       accept, "", "", <<>>)
          /\ verify_result' = verify_batch_proof(verifier, batch_proof, accept)
    /\ evm_runs' = 0
    /\ UNCHANGED <<verifier, bundle_proof, raw_input>>
    /\ UNCHANGED <<cacheVars, foldVars, extVars>>

VerifyChunkProof ==
    /\ \E proof \in ChunkProofs, accept \in BOOLEAN :
          /\ verify_call' = VerifyCall("verify_chunk_proof", NoVerifier, proof,
                                       accept, "", "", <<>>)
          /\ verify_result' = verify_chunk_proof(proof, accept)
    /\ evm_runs' = 0
    /\ UNCHANGED <<verifier, bundle_proof, raw_input>>
    /\ UNCHANGED <<cacheVars, foldVars, extVars>>

VerifyBundleProof ==
    /\ verifier.constructed
    /\ bundle_proof.tag = "Ok"
    /\ \E deploy \in DeployOutcomes, call \in CallOutcomes :
          LET out == verify_bundle_proof(verifier, bundle_proof.val, deploy, call)
          IN  /\ verify_call' = VerifyCall("verify_bundle_proof", verifier,
                                           bundle_proof.val, FALSE, deploy, call, out.data)
              /\ verify_result' = out.res
              /\ evm_runs' = out.runs
    /\ UNCHANGED <<verifier, bundle_proof, raw_input>>
    /\ UNCHANGED <<cacheVars, foldVars, extVars>>

VerifyNext ==
    \/ FromParamsAndAssets
    \/ VerifierNew
    \/ VerifyBatchProof
    \/ VerifyChunkProof

\* The bundle verifier: bundle proofs are built from raw bytes and verified in
\* the EVM, next to the batch proofs the same verifier checks.
BundleNext ==
    \/ FromParamsAndAssets
    \/ VerifierNew
    \/ NewFromRaw
    \/ VerifyBatchProof
    \/ VerifyBundleProof

-----------------------------------------------------------------------------
(* Proof artifacts: construction from a snark and the instances codec       *)
(* (proof/mod.rs, proof/proof_v2.rs).                                       *)

\* proof::serialize_instance: the bytes of every element, reversed, one after
\* another; the assertion on the length.
serialize_instance_NoReverse(instance) ==
    LET bytes == Concat([i \in 1..Len(instance) |-> serialize_fr(instance[i])])
    IN  IF Len(bytes) % 32 # 0
        THEN Panic("assertion failed: bytes.len() % 32 == 0")
        ELSE Ok(bytes)

RECURSIVE TrimLeadingZeros(_)
TrimLeadingZeros(b) ==
    IF b # <<>> /\ Head(b) = 0 THEN TrimLeadingZeros(Tail(b)) ELSE b

\* serialize_instance writing every element as the shortest big-endian number,
\* without the assertion on the length.
serialize_instance_Unpadded(instance) ==
    Ok(Concat([i \in 1..Len(instance) |-> TrimLeadingZeros(Reverse(serialize_fr(instance[i])))]))

serialize_instance(instance) ==
    LET bytes == Concat([i \in 1..Len(instance) |-> Reverse(serialize_fr(instance[i]))])
    IN  IF Len(bytes) % 32 # 0
        THEN Panic("assertion failed: bytes.len() % 32 == 0")
        ELSE Ok(bytes)

\* proof::serialize_instances: exactly one column.
serialize_instances(instances) ==
    IF Len(instances) # 1
    THEN Panic("assertion failed: instances.len() == 1")
    ELSE serialize_instance(instances[1])

\* InnerProof { proof, instances, vk, git_version }
InnerProof(proof, instances, vk) ==
    [proof |-> proof, instances |-> instances, vk |-> vk, git_version |-> GitVersion]

\* InnerProof::new(proof, instances, pk); `vk` is serialize_vk(pk.get_vk()), or
\* empty without a proving key.
InnerProof_new(proof, instances, vk) ==
    LET bytes == serialize_instances(instances)
    IN  IF bytes.tag # "Ok" THEN bytes ELSE Ok(InnerProof(proof, bytes.val, vk))

\* InnerProof::instances: every 32-byte chunk, reversed, through deserialize_fr.
InnerProof_instances(instances) ==
    LET pieces == Chunks(instances, 32)
        elems == [i \in 1..Len(pieces) |-> deserialize_fr(Reverse(pieces[i]))]
    IN  IF \E i \in 1..Len(pieces) : elems[i].tag = "Panic"
        THEN elems[CHOOSE i \in 1..Len(pieces) :
                      /\ elems[i].tag = "Panic"
                      /\ \A j \in 1..(i - 1) : elems[j].tag # "Panic"]
        ELSE Ok(<<[i \in 1..Len(pieces) |-> elems[i].val]>>)

\* ProofV2::new(snark, proving_key, inner)
ProofV2_new(snark, vk, inner) ==
    LET bytes == serialize_instances(snark.instances)
    IN  IF bytes.tag # "Ok" THEN bytes ELSE Ok(ProofV2(inner, snark.proof, bytes.val, vk))

-----------------------------------------------------------------------------
(* Proof artifacts on disk: ProofV2::dump and ProofV2::from_json.           *)

RECURSIVE Base64Encode(_)
\* base64 of a byte string: four 6-bit digits for every three bytes, the last
\* group padded (the padding character is written 64).
Base64Encode(b) ==
    IF Len(b) = 0 THEN <<>>
    ELSE IF Len(b) = 1 THEN <<b[1] \div 4, (b[1] % 4) * 16, 64, 64>>
    ELSE IF Len(b) = 2
    THEN <<b[1] \div 4, (b[1] % 4) * 16 + (b[2] \div 16), (b[2] % 16) * 4, 64>>
    ELSE <<b[1] \div 4, (b[1] % 4) * 16 + (b[2] \div 16),
           (b[2] % 16) * 4 + (b[3] \div 64), b[3] % 64>>
         \o Base64Encode(SubSeq(b, 4, Len(b)))

RECURSIVE Base64Decode(_)
\* The bytes of a base64 text, or an error when it is not canonical base64.
Base64Decode(t) ==
    IF t = <<>> THEN Ok(<<>>)
    ELSE IF Len(t) < 4 THEN Err("Serde")
    ELSE LET a == t[1]
             b == t[2]
             c == t[3]
             d == t[4]
             rest == SubSeq(t, 5, Len(t))
             more == Base64Decode(rest)
         IN  IF a = 64 \/ b = 64 THEN Err("Serde")
             ELSE IF c = 64
             THEN IF d = 64 /\ rest = <<>> /\ b % 16 = 0
                  THEN Ok(<<a * 4 + (b \div 16)>>)
                  ELSE Err("Serde")
             ELSE IF d = 64
             THEN IF rest = <<>> /\ c % 4 = 0
                  THEN Ok(<<a * 4 + (b \div 16), (b % 16) * 16 + (c \div 4)>>)
                  ELSE Err("Serde")
             ELSE IF more.tag # "Ok" THEN more
             ELSE Ok(<<a * 4 + (b \div 16), (b % 16) * 16 + (c \div 4), (c % 4) * 64 + d>>
                     \o more.val)

\* The protocol bytes of the metadata are opaque; their base64 text is written
\* as the text of those bytes.
ProtocolText(protocol) == [base64_of |-> protocol]

\* #[derive(Serialize)] for ProofV2<Inner>: the fields of the metadata
\* flattened into the object (a bundle has none), then proof, instances and vk
\* in base64 and the git version.  NAME is a constant of the type and is not
\* written.
ProofV2_serialize(p) ==
    [protocol |-> IF p.inner.NAME = "bundle"
                  THEN [some |-> FALSE, v |-> ProtocolText(NoProtocol)]
                  ELSE [some |-> TRUE, v |-> ProtocolText(p.inner.protocol)],
     proof |-> Base64Encode(p.proof),
     instances |-> Base64Encode(p.instances),
     vk |-> Base64Encode(p.vk),
     git_version |-> p.git_version]

\* #[derive(Deserialize)] for ProofV2<Inner>, Inner being the metadata type
\* whose NAME is `name`.
ProofV2_deserialize(obj, name) ==
    LET proof == Base64Decode(obj.proof)
        instances == Base64Decode(obj.instances)
        vk == Base64Decode(obj.vk)
        inner == IF name = "bundle" THEN BundleProofV2Metadata
                 ELSE [NAME |-> name, protocol |-> obj.protocol.v.base64_of]
    IN  IF name # "bundle" /\ ~obj.protocol.some THEN Err("Serde")
        ELSE IF proof.tag # "Ok" \/ instances.tag # "Ok" \/ vk.tag # "Ok" THEN Err("Serde")
        ELSE Ok([inner |-> inner, proof |-> proof.val, instances |-> instances.val,
                 vk |-> vk.val, git_version |-> obj.git_version])

\* Proof::path_proof: <dir>/proof_{NAME}_{suffix}.json
path_proof(dir, name, suffix) == Join(dir, "proof_" \o name \o "_" \o suffix \o ".json")

\* Proof::path_vk: <dir>/vk_{NAME}_{suffix}.vkey
path_vk_Json(dir, name, suffix) == Join(dir, "vk_" \o name \o "_" \o suffix \o ".json")

path_vk(dir, name, suffix) == Join(dir, "vk_" \o name \o "_" \o suffix \o ".vkey")

\* Proof::path_protocol: <dir>/protocol_{NAME}_{suffix}.protocol
path_protocol(dir, name, suffix) ==
    Join(dir, "protocol_" \o name \o "_" \o suffix \o ".protocol")

\* utils::write: fs::write(path, data); a failure leaves no file or an empty one.
write(d, path, data, io) ==
    CASE io = "create_fail" -> [res |-> Err(IoReadWrite(path)), disk |-> d]
      [] io = "write_fail"  -> [res |-> Err(IoReadWrite(path)), disk |-> FilePut(d, path, <<>>)]
      [] OTHER              -> [res |-> Ok(NoValue), disk |-> FilePut(d, path, data)]

\* Proof::dump of the metadata: the protocol file for chunk and batch proofs,
\* nothing for a bundle proof.
Proof_dump(d, inner, dir, suffix, io) ==
    IF inner.NAME = "bundle" THEN [res |-> Ok(NoValue), disk |-> d]
    ELSE write(d, path_protocol(dir, inner.NAME, suffix), inner.protocol, io)

\* ProofV2::dump: the verifying key, then the proof, then the metadata, each
\* with `?`.  `ios` are the outcomes of the file system for the three writes.
ProofV2_dump(d, p, dir, suffix, ios) ==
    LET w1 == write(d, path_vk(dir, p.inner.NAME, suffix), p.vk, ios[1])
        w2 == write_json(w1.disk, path_proof(dir, p.inner.NAME, suffix),
                         ProofV2_serialize(p), ios[2])
        w3 == Proof_dump(w2.disk, p.inner, dir, suffix, ios[3])
    IN  IF w1.res.tag # "Ok" THEN w1
        ELSE IF w2.res.tag # "Ok" THEN w2
        ELSE w3

\* ProofV2::from_json for the metadata type whose NAME is `name`.
ProofV2_from_json(d, dir, name, suffix) ==
    LET obj == read_json_deep(d, path_proof(dir, name, suffix))
    IN  IF obj.tag # "Ok" THEN obj ELSE ProofV2_deserialize(obj.val, name)

-----------------------------------------------------------------------------
(* SpecArtifact: an artifact is built from a snark, its instances are       *)
(* decoded and encoded again, and it is dumped to a directory and read back. *)

\* Field elements, as their 32 bytes least significant first: 1, p - 1 and
\* 0x0102..20.
CountBE == [i \in 1..32 |-> i]

FrSamples == {Reverse(OneBE), Reverse(ModulusMinusOneBE), Reverse(CountBE)}

\* Instances of a snark: one column of at most MaxVecLen elements, and, for
\* the assertion of serialize_instances, no column and two columns.
ArtInstances ==
    {<<column>> : column \in SeqsUpTo(FrSamples, MaxVecLen)}
        \cup {<<>>, <<<<Reverse(OneBE)>>, <<Reverse(OneBE)>>>>}

NoArtSnark == [made |-> FALSE, protocol |-> NoProtocol, proof |-> <<>>, instances |-> <<>>]

ArtSnarks ==
    {[made |-> TRUE, protocol |-> ProtocolJson, proof |-> proof, instances |-> instances] :
        proof \in {<<7, 9, 11>>, <<255, 0>>}, instances \in ArtInstances}

ProofKinds == {"chunk", "batch", "bundle"}

\* The metadata of a layer for a snark: {Chunk,Batch}ProofV2Metadata::new keep
\* the bytes of the snark's protocol.
MetadataOf(kind, snark) ==
    CASE kind = "chunk" -> ChunkProofV2Metadata(snark.protocol)
      [] kind = "batch" -> BatchProofV2Metadata(snark.protocol)
      [] OTHER -> BundleProofV2Metadata

DumpDirs == {"out"}

Suffixes == {"a", "b"}

NoArtifact == [type |-> "", res |-> NoResult]

NoDump == [made |-> FALSE, dir |-> "", suffix |-> "", res |-> NoResult]

NoLoad == [made |-> FALSE, dir |-> "", name |-> "", suffix |-> "", res |-> NoResult]

ArtifactIdle ==
    /\ art_snark = NoArtSnark
    /\ artifact = NoArtifact
    /\ decoded = NoResult
    /\ reencoded = NoResult
    /\ dumped = NoDump
    /\ loaded = NoLoad

ProofV2New ==
    /\ artifact = NoArtifact
    /\ \E snark \in ArtSnarks, kind \in ProofKinds :
          /\ art_snark' = snark
          /\ artifact' = [type |-> "ProofV2",
                          res |-> ProofV2_new(snark, SampleVk, MetadataOf(kind, snark))]
    /\ UNCHANGED <<decoded, reencoded, dumped, loaded>>
    /\ UNCHANGED <<cacheVars, foldVars, verifyVars, chunkVars, blobVars, concVars, restVars>>

InnerProofNew ==
    /\ artifact = NoArtifact
    /\ \E snark \in ArtSnarks :
          /\ art_snark' = snark
          /\ artifact' = [type |-> "InnerProof",
                          res |-> InnerProof_new(snark.proof, snark.instances, SampleVk)]
    /\ UNCHANGED <<decoded, reencoded, dumped, loaded>>
    /\ UNCHANGED <<cacheVars, foldVars, verifyVars, chunkVars, blobVars, concVars, restVars>>

\* ProofV2::deserialize_instances, InnerProof::instances
DeserializeInstances ==
    /\ artifact.res.tag = "Ok"
    /\ decoded = NoResult
    /\ decoded' = IF artifact.type = "ProofV2"
                  THEN deserialize_instances(artifact.res.val.instances)
                  ELSE InnerProof_instances(artifact.res.val.instances)
    /\ UNCHANGED <<art_snark, artifact, reencoded, dumped, loaded>>
    /\ UNCHANGED <<cacheVars, foldVars, verifyVars, chunkVars, blobVars, concVars, restVars>>

\* serialize_instances on what was decoded.
SerializeDecoded ==
    /\ decoded.tag = "Ok"
    /\ reencoded = NoResult
    /\ reencoded' = serialize_instances(decoded.val)
    /\ UNCHANGED <<art_snark, artifact, decoded, dumped, loaded>>
    /\ UNCHANGED <<cacheVars, foldVars, verifyVars, chunkVars, blobVars, concVars, restVars>>

\* ProofV2::dump(dir, suffix)
Dump ==
    /\ artifact.type = "ProofV2"
    /\ artifact.res.tag = "Ok"
    /\ ~dumped.made
    /\ \E dir \in DumpDirs, suffix \in Suffixes, ios \in [1..3 -> IoOutcomes] :
          LET out == ProofV2_dump(disk, artifact.res.val, dir, suffix, ios)
          IN  /\ disk' = out.disk
              /\ dumped' = [made |-> TRUE, dir |-> dir, suffix |-> suffix, res |-> out.res]
    /\ loaded' = NoLoad
    /\ UNCHANGED <<art_snark, artifact, decoded, reencoded>>
    /\ UNCHANGED <<env, adapter_calls, last, prev, n_calls, foldVars, verifyVars, chunkVars, blobVars, concVars, restVars>>

\* ProofV2::<Inner>::from_json(dir, suffix)
LoadFromJson ==
    /\ \E dir \in DumpDirs, suffix \in Suffixes, name \in ProofKinds :
          loaded' = [made |-> TRUE, dir |-> dir, name |-> name, suffix |-> suffix,
                     res |-> ProofV2_from_json(disk, dir, name, suffix)]
    /\ UNCHANGED <<art_snark, artifact, decoded, reencoded, dumped>>
    /\ UNCHANGED <<cacheVars, foldVars, verifyVars, chunkVars, blobVars, concVars, restVars>>

ArtifactNext ==
    \/ ProofV2New
    \/ InnerProofNew
    \/ DeserializeInstances
    \/ SerializeDecoded
    \/ Dump
    \/ LoadFromJson

-----------------------------------------------------------------------------
(* Chunk info comparison: proof/chunk.rs. *)

MaxTxBytes == 1

\* The fields of ChunkInfo that compare_chunk_info reads.
ChunkInfo(chain_id, prev_state_root, post_state_root, withdraw_root, data_hash, tx_bytes) ==
    [chain_id |-> chain_id,
     prev_state_root |-> prev_state_root,
     post_state_root |-> post_state_root,
     withdraw_root |-> withdraw_root,
     data_hash |-> data_hash,
     tx_bytes |-> tx_bytes]

HexDigits == <<"0", "1", "2", "3", "4", "5", "6", "7", "8", "9", "a", "b", "c", "d", "e", "f">>

\* hex::encode: two lower-case digits per byte.
RECURSIVE hex_encode(_)
hex_encode(bytes) ==
    IF bytes = <<>> THEN ""
    ELSE HexDigits[(Head(bytes) \div 16) + 1] \o HexDigits[(Head(bytes) % 16) + 1]
            \o hex_encode(Tail(bytes))

\* format!("{} chunk different {}: {} != {}", desc, field, lhs, rhs), kept as
\* the literal pieces and the arguments in the order they are written.
MismatchMessage(desc, field, lhs, rhs) ==
    <<desc, " chunk different ", field, ": ", lhs, " != ", rhs>>

\* The field an error message names: the second argument of the format.
NamedField(msg) == msg[3]

\* compare_field!: returns the error if the field differs, else falls through.
compare_field(desc, field, lhs, rhs) ==
    IF lhs[field] # rhs[field]
    THEN Err(MismatchMessage(desc, field, ToString(lhs[field]), ToString(rhs[field])))
    ELSE Ok(NoValue)

ComparedFields == <<"chain_id", "prev_state_root", "post_state_root", "withdraw_root", "data_hash">>

\* The macro expansions in order: the first field that differs returns.
RECURSIVE compare_fields(_, _, _, _)
compare_fields(desc, fields, lhs, rhs) ==
    IF fields = <<>> THEN Ok(NoValue)
    ELSE LET e == compare_field(desc, Head(fields), lhs, rhs)
         IN  IF e.tag = "Err" THEN e ELSE compare_fields(desc, Tail(fields), lhs, rhs)

\* compare_chunk_info comparing data_hash before the other fields.
compare_chunk_info_DataHashFirst(name, lhs, rhs) ==
    LET e == compare_fields(name, <<"data_hash">> \o ComparedFields, lhs, rhs)
    IN  IF e.tag = "Err" THEN e
        ELSE IF lhs.tx_bytes # rhs.tx_bytes
             THEN Err(MismatchMessage(name, "tx_bytes", hex_encode(lhs.tx_bytes),
                                      hex_encode(rhs.tx_bytes)))
             ELSE Ok(NoValue)

compare_chunk_info(name, lhs, rhs) ==
    LET e == compare_fields(name, ComparedFields, lhs, rhs)
    IN  IF e.tag = "Err" THEN e
        ELSE IF lhs.tx_bytes # rhs.tx_bytes
             THEN Err(MismatchMessage(name, "tx_bytes", hex_encode(lhs.tx_bytes),
                                      hex_encode(rhs.tx_bytes)))
             ELSE Ok(NoValue)

(* The specification SpecChunk: compare_chunk_info on pairs of chunk infos. *)

ChainIds == {1, 534352}
Roots == {"0x1a", "0x2b"}
TxBytes == SeqsUpTo({0, 171}, MaxTxBytes)

ChunkInfos ==
    {ChunkInfo(c, p, q, w, d, t) :
        c \in ChainIds, p \in Roots, q \in Roots, w \in Roots, d \in Roots, t \in TxBytes}

CompareNames == {"batch"}

NoChunkInfo == ChunkInfo(0, "", "", "", "", <<>>)

NoCompare == [made |-> FALSE, name |-> "", lhs |-> NoChunkInfo, rhs |-> NoChunkInfo, res |-> NoResult]

ChunkIdle == compared = NoCompare

\* One call of the function on any pair of arguments.
CompareChunkInfo ==
    /\ ~compared.made
    /\ \E name \in CompareNames, lhs \in ChunkInfos, rhs \in ChunkInfos :
          compared' = [made |-> TRUE, name |-> name, lhs |-> lhs, rhs |-> rhs,
                       res |-> compare_chunk_info(name, lhs, rhs)]
    /\ UNCHANGED <<cacheVars, foldVars, verifyVars, artifactVars, blobVars, concVars, restVars>>

ChunkNext == CompareChunkInfo

-----------------------------------------------------------------------------
(* Blob consistency: aggregator/src/blob_consistency/eip4844.rs. *)

\* The number of coefficients of a blob. The program uses 4096; the
\* computation is the same for every width, and the model runs it on short blobs.
BLOB_WIDTH == 2

MaxBlobCalls == 2

N_DATA_BYTES_PER_COEFFICIENT == 31

N_BYTES_U256 == 32

N_BLOB_BYTES == BLOB_WIDTH * N_DATA_BYTES_PER_COEFFICIENT

VERSIONED_HASH_VERSION_KZG == 1

\* The modulus of the BLS12-381 scalar field, most significant byte first:
\* 0x73eda753299d7d483339d80809a1d80553bda402fffe5bfeffffffff00000001
BLS_MODULUS ==
    <<115, 237, 167, 83, 41, 157, 125, 72, 51, 57, 216, 8, 9, 161, 216, 5,
      83, 189, 164, 2, 255, 254, 91, 254, 255, 255, 255, 255, 0, 0, 0, 1>>

\* a - b - borrow for two byte strings of the same length read as big-endian
\* numbers, a >= b + borrow.
RECURSIVE SubBE(_, _, _)
SubBE(a, b, borrow) ==
    IF a = <<>> THEN <<>>
    ELSE LET n == Len(a)
             d == a[n] - b[n] - borrow
         IN  SubBE(SubSeq(a, 1, n - 1), SubSeq(b, 1, n - 1), IF d < 0 THEN 1 ELSE 0)
                \o <<(d + 256) % 256>>

\* U256::div_mod: the remainder.
RECURSIVE RemBE(_, _)
RemBE(x, modulus) == IF LessBE(x, modulus) THEN x ELSE RemBE(SubBE(x, modulus, 0), modulus)

\* A digest of n bytes standing for the cryptographic functions of the
\* libraries (SHA-256, the KZG commitment, Keccak): a fixed function of the
\* length of the input, of bytes of it and of a domain tag.
ByteAt(bytes, k) == IF bytes = <<>> THEN 0 ELSE bytes[((k - 1) % Len(bytes)) + 1]

DigestN(bytes, tag, n) ==
    [i \in 1..n |->
        (tag + 31 * i + 7 * Len(bytes) + (i + 1) * ByteAt(bytes, i)
            + 3 * ByteAt(bytes, 5 * i + 3) + ByteAt(bytes, 2 * i + 17)) % 256]

\* Sha256::digest.
Sha256(bytes) == DigestN(bytes, 2, 32)

\* get_coefficients: byte i of the blob goes to byte 1 + i % 31 of coefficient
\* i / 31; the first byte of every coefficient stays 0.
\* get_coefficients filling every coefficient from its top byte on.
get_coefficients_NoTopByte(blob_bytes) ==
    IF Len(blob_bytes) > N_BLOB_BYTES THEN Panic("too many bytes in batch data")
    ELSE Ok([k \in 1..BLOB_WIDTH |->
                [q \in 1..N_BYTES_U256 |->
                    IF q = N_BYTES_U256 THEN 0
                    ELSE LET i == N_DATA_BYTES_PER_COEFFICIENT * (k - 1) + (q - 1)
                         IN  IF i < Len(blob_bytes) THEN blob_bytes[i + 1] ELSE 0]])

get_coefficients(blob_bytes) ==
    IF Len(blob_bytes) > N_BLOB_BYTES THEN Panic("too many bytes in batch data")
    ELSE Ok([k \in 1..BLOB_WIDTH |->
                [q \in 1..N_BYTES_U256 |->
                    IF q = 1 THEN 0
                    ELSE LET i == N_DATA_BYTES_PER_COEFFICIENT * (k - 1) + (q - 2)
                         IN  IF i < Len(blob_bytes) THEN blob_bytes[i + 1] ELSE 0]])

\* The static KZG_TRUSTED_SETUP before its first use.
Uninit == [loaded |-> FALSE, settings |-> NoValue]

\* c_kzg::KzgSettings::load_trusted_setup(G1_POINTS, G2_POINTS): the points
\* are constants of the build.
load_trusted_setup == [loaded |-> TRUE, settings |-> "G1_POINTS,G2_POINTS"]

\* Lazy::force: the initializer runs at the first dereference only.
Lazy_force(setup) == IF setup.loaded THEN setup ELSE load_trusted_setup

\* c_kzg::Blob::from_bytes: every 32-byte element must be a canonical scalar.
Blob_from_bytes(coefficients) ==
    IF \A k \in 1..Len(coefficients) : LessBE(coefficients[k], BLS_MODULUS)
    THEN Ok(Concat(coefficients))
    ELSE Panic("blob-coefficients to 4844 blob should succeed")

\* c_kzg::KzgCommitment::blob_to_kzg_commitment: 48 bytes, a function of the
\* blob and the settings.
blob_to_kzg_commitment(blob, settings) ==
    DigestN(blob, IF settings = "G1_POINTS,G2_POINTS" THEN 3 ELSE 4, 48)

\* kzg_to_versioned_hash without the version tag.
kzg_to_versioned_hash_NoTag(commitment) == Sha256(commitment)

kzg_to_versioned_hash(commitment) ==
    LET res == Sha256(commitment)
    IN  [res EXCEPT ![1] = VERSIONED_HASH_VERSION_KZG]

\* get_versioned_hash committing with other parameters when the static has
\* not been loaded before the call.
get_versioned_hash_ColdStart(coefficients, setup) ==
    LET blob == Blob_from_bytes(coefficients)
        forced == Lazy_force(setup)
    IN  IF blob.tag = "Panic" THEN [res |-> blob, setup |-> setup]
        ELSE [res |-> Ok(kzg_to_versioned_hash(
                          blob_to_kzg_commitment(blob.val,
                              IF setup.loaded THEN forced.settings ELSE "fresh"))),
              setup |-> forced]

\* get_versioned_hash: the result and the static after the call.
get_versioned_hash(coefficients, setup) ==
    LET blob == Blob_from_bytes(coefficients)
        forced == Lazy_force(setup)
    IN  IF blob.tag = "Panic" THEN [res |-> blob, setup |-> setup]
        ELSE [res |-> Ok(kzg_to_versioned_hash(
                          blob_to_kzg_commitment(blob.val, forced.settings))),
              setup |-> forced]

digest_from_word(x) == x

RECURSIVE RunLengths(_)
\* The runs of equal bytes of `bytes`, each as its length and its byte.
RunLengths(bytes) ==
    IF bytes = <<>> THEN <<>>
    ELSE LET run == CHOOSE n \in 1..Len(bytes) :
                        /\ \A i \in 1..n : bytes[i] = bytes[1]
                        /\ n = Len(bytes) \/ bytes[n + 1] # bytes[1]
         IN  <<run, bytes[1]>> \o RunLengths(SubSeq(bytes, run + 1, Len(bytes)))

\* witgen::zstd_encode: the encoder is a library; it stands here as a frame
\* that starts with the four magic bytes of the format and holds the runs of
\* the input, so that an encoding can be shorter than its input, as long, or
\* longer.
zstd_encode(bytes) == <<40, 181, 47, 253>> \o RunLengths(bytes)

\* get_blob_bytes encoding also when the encoding is as long as the batch bytes.
get_blob_bytes_EncodesWhenNotLonger(batch_bytes) ==
    LET encoded == zstd_encode(batch_bytes)
        enable_encoding == Len(encoded) <= Len(batch_bytes)
        blob_bytes == IF ~enable_encoding THEN batch_bytes ELSE encoded
    IN  <<IF enable_encoding THEN 1 ELSE 0>> \o blob_bytes

\* get_blob_bytes: the flag byte enable_encoding as u8, then the payload.
get_blob_bytes(batch_bytes) ==
    LET encoded == zstd_encode(batch_bytes)
        enable_encoding == Len(encoded) < Len(batch_bytes)
        blob_bytes == IF ~enable_encoding THEN batch_bytes ELSE encoded
    IN  <<IF enable_encoding THEN 1 ELSE 0>> \o blob_bytes

\* scalar_from_word keeping the low 254 bits of the word instead of dividing.
scalar_from_word_Truncated(x) == Reverse([x EXCEPT ![1] = @ % 64])

\* scalar_from_word: the remainder modulo BLS_MODULUS, as the scalar's
\* little-endian bytes.
scalar_from_word(x) == Reverse(RemBE(x, BLS_MODULUS))

\* word_from_digest: U256::from_big_endian of the 32 bytes; a word is held as
\* its 32 big-endian bytes.
word_from_digest(x) == x

\* scalar_from_digest
scalar_from_digest(x) == scalar_from_word(word_from_digest(x))

\* digest_from_scalar taking the bytes of the scalar as they are.
digest_from_scalar_NotReversed(x) == x

\* digest_from_scalar: Scalar::to_bytes (little-endian), reversed.
digest_from_scalar(x) == Reverse(x)

\* BlobConsistencyWitness::challenge_digest
BlobConsistencyWitness_challenge_digest(self) == word_from_digest(self.challenge_digest)

\* BlobConsistencyWitness::challenge
BlobConsistencyWitness_challenge(self) == scalar_from_digest(self.challenge_digest)

\* BlobConsistencyWitness::evaluation
BlobConsistencyWitness_evaluation(self) == self.evaluation

\* BlobConsistencyWitness::blob_data_proof
BlobConsistencyWitness_blob_data_proof(self) ==
    LET both == <<BlobConsistencyWitness_challenge(self), self.evaluation>>
    IN  [i \in 1..2 |-> digest_from_scalar(both[i])]

\* PointEvaluationAssignments::new: the challenge digest is a hash over the
\* batch metadata and the versioned hash, the evaluation a word computed from
\* the blob at the challenge.
PointEvaluationAssignments_new(batch_data, bytes, blob_versioned_hash) ==
    LET challenge_digest == DigestN(batch_data \o blob_versioned_hash, 5, 32)
    IN  [challenge_digest |-> challenge_digest,
         evaluation |-> DigestN(bytes \o challenge_digest, 6, 32)]

\* BlobConsistencyWitness::new: the result and the static after the call.
BlobConsistencyWitness_new(bytes, batch_data, setup) ==
    LET coeffs == get_coefficients(bytes)
    IN  IF coeffs.tag = "Panic" THEN [res |-> coeffs, setup |-> setup]
        ELSE LET hashed == get_versioned_hash(coeffs.val, setup)
             IN  IF hashed.res.tag = "Panic" THEN hashed
                 ELSE LET assignments ==
                              PointEvaluationAssignments_new(batch_data, bytes, hashed.res.val)
                      IN  [res |-> Ok([blob_versioned_hash |-> hashed.res.val,
                                       challenge_digest |->
                                           digest_from_word(assignments.challenge_digest),
                                       evaluation |->
                                           scalar_from_word(assignments.evaluation)]),
                           setup |-> hashed.setup]

(* The specification SpecBlob: witnesses constructed one after another in one
   process, and hashes of commitments. *)

BlobBytes ==
    {<<>>, <<5>>, Repeat(<<200, 17>>, 16),
     [i \in 1..N_BLOB_BYTES |-> (3 * i) % 256],
     [i \in 1..(N_BLOB_BYTES + 1) |-> 255]}

BatchDatas == {<<1, 3>>, <<2, 1, 2>>}

Commitments ==
    {blob_to_kzg_commitment(Concat(get_coefficients(b).val), load_trusted_setup.settings) :
        b \in {c \in BlobBytes : Len(c) <= N_BLOB_BYTES}}
    \cup {[i \in 1..48 |-> 0], [i \in 1..48 |-> 255]}

NoVersioned == [made |-> FALSE, commitment |-> <<>>, res |-> <<>>]

BlobIdle ==
    /\ kzg_setup = Uninit
    /\ versioned = NoVersioned
    /\ blob_calls = <<>>

NewWitness ==
    /\ Len(blob_calls) < MaxBlobCalls
    /\ \E bytes \in BlobBytes, batch_data \in BatchDatas :
          LET out == BlobConsistencyWitness_new(bytes, batch_data, kzg_setup)
          IN  /\ blob_calls' = Append(blob_calls,
                      [bytes |-> bytes, batch_data |-> batch_data, res |-> out.res])
              /\ kzg_setup' = out.setup
    /\ UNCHANGED versioned
    /\ UNCHANGED <<cacheVars, foldVars, verifyVars, artifactVars, chunkVars, concVars, restVars>>

KzgToVersionedHash ==
    /\ \E commitment \in Commitments :
          versioned' = [made |-> TRUE, commitment |-> commitment,
                        res |-> kzg_to_versioned_hash(commitment)]
    /\ UNCHANGED <<kzg_setup, blob_calls>>
    /\ UNCHANGED <<cacheVars, foldVars, verifyVars, artifactVars, chunkVars, concVars, restVars>>

BlobNext ==
    \/ NewWitness
    \/ KzgToVersionedHash

-----------------------------------------------------------------------------
(* Concurrent load_or_gen calls.  Every thread has a prover of its own (the
   calls take &mut self); the threads share the disk and the environment of
   the process.  A call is taken apart into the steps between which another
   thread can run: the read of the cache file, env::set_var, the construction
   of the circuit, which reads the configuration slot of its stage, the proof,
   and the write of the cache file. *)

Threads == {1, 2}

\* The stages the threads call, and the layers they call them for.
ConcStages == {"compression", "aggregation", "recursion"}

ConcIds == {"layer1", "layer2"}

ConcDir == "out"

ConcName == "0"

\* The environment variable a stage stores its configuration path in.
ConfigSlot(stage) ==
    CASE stage = "compression" -> "COMPRESSION_CONFIG"
      [] stage = "aggregation" -> "AGGREGATION_CONFIG"
      [] OTHER                 -> "BUNDLE_CONFIG"

\* The configuration the circuit of a stage is built against: what the slot of
\* the stage holds when the circuit is constructed.
circuit_config(e, stage) == e[ConfigSlot(stage)]

\* The snark of a stage, a layer id and inputs, proved by a circuit that was
\* built against `config`.
SnarkBuiltWith(stage, id, inputs, config) ==
    [Snark(stage, id, inputs) EXCEPT !.protocol = stage \o "/" \o id \o "@" \o config]

IdleThread ==
    [pc |-> "idle", stage |-> "", id |-> "", inputs |-> "", config |-> Unset,
     snark |-> NoSnark, res |-> NoResult]

ThreadPath(t) == CachePath(threads[t].stage, ConcDir, threads[t].id, ConcName)

ConcIdle == threads = [t \in Threads |-> IdleThread]

\* A thread entering its call only while no other call is in flight, as if
\* the calls took a lock on the cache.
ConcCall_Locked(t) ==
    /\ threads[t].pc = "idle"
    /\ \A u \in Threads \ {t} : threads[u].pc \in {"idle", "done"}
    /\ \E stage \in ConcStages, id \in ConcIds :
          threads' = [threads EXCEPT ![t] =
                         [IdleThread EXCEPT !.pc = "read", !.stage = stage, !.id = id,
                                            !.inputs = "in" \o ToString(t)]]
    /\ UNCHANGED <<cacheVars, foldVars, verifyVars, artifactVars, chunkVars, blobVars, restVars>>

\* A thread enters load_or_gen_comp_snark, load_or_gen_agg_snark or
\* load_or_gen_recursion_snark.
ConcCall(t) ==
    /\ threads[t].pc = "idle"
    /\ \E stage \in ConcStages, id \in ConcIds :
          threads' = [threads EXCEPT ![t] =
                         [IdleThread EXCEPT !.pc = "read", !.stage = stage, !.id = id,
                                            !.inputs = "in" \o ToString(t)]]
    /\ UNCHANGED <<cacheVars, foldVars, verifyVars, artifactVars, chunkVars, blobVars, restVars>>

\* if let Ok(snark) = read_json_deep(&path) { return Ok(snark); }
ConcReadCache(t) ==
    /\ threads[t].pc = "read"
    /\ LET cached == read_json_deep(disk, ThreadPath(t))
       IN  threads' = [threads EXCEPT ![t] =
                          IF cached.tag = "Ok"
                          THEN [@ EXCEPT !.pc = "done", !.res = cached]
                          ELSE [@ EXCEPT !.pc = "set_var"]]
    /\ UNCHANGED <<cacheVars, foldVars, verifyVars, artifactVars, chunkVars, blobVars, restVars>>

\* The statement as if it were missing: the slot keeps what it held.
set_layer_config_Skipped(e, stage, id) == e

\* env::set_var("COMPRESSION_CONFIG" / "AGGREGATION_CONFIG" / "BUNDLE_CONFIG",
\*              layer_config_path(id))
set_layer_config(e, stage, id) ==
    SetVar(e, ConfigSlot(stage), layer_config_path(id).val)

ConcSetVar(t) ==
    /\ threads[t].pc = "set_var"
    /\ env' = set_layer_config(env, threads[t].stage, threads[t].id)
    /\ threads' = [threads EXCEPT ![t].pc = "build"]
    /\ UNCHANGED <<disk, adapter_calls, last, prev, n_calls>>
    /\ UNCHANGED <<foldVars, verifyVars, artifactVars, chunkVars, blobVars, restVars>>

\* CompressionCircuit::new / BatchCircuit::new
ConcBuildCircuit(t) ==
    /\ threads[t].pc = "build"
    /\ threads' = [threads EXCEPT ![t].pc = "prove",
                                  ![t].config = circuit_config(env, threads[t].stage)]
    /\ UNCHANGED <<cacheVars, foldVars, verifyVars, artifactVars, chunkVars, blobVars, restVars>>

\* self.gen_snark(id, degree, &mut rng, circuit, ..)?
ConcProve(t) ==
    /\ threads[t].pc = "prove"
    /\ \E adapter \in AdapterOutcomes :
          LET th == threads[t]
          IN  threads' = [threads EXCEPT ![t] =
                             IF adapter = "ok"
                             THEN [th EXCEPT !.pc = "write",
                                             !.snark = SnarkBuiltWith(th.stage, th.id,
                                                                      th.inputs, th.config)]
                             ELSE [th EXCEPT !.pc = "done", !.res = Err("Adapter")]]
    /\ UNCHANGED <<cacheVars, foldVars, verifyVars, artifactVars, chunkVars, blobVars, restVars>>

\* write_json(&path, &snark)?; Ok(snark)
ConcWriteCache(t) ==
    /\ threads[t].pc = "write"
    /\ \E io \in IoOutcomes :
          LET th == threads[t]
              written == write_json(disk, ThreadPath(t), th.snark, io)
          IN  /\ disk' = written.disk
              /\ threads' = [threads EXCEPT ![t] =
                                [th EXCEPT !.pc = "done",
                                           !.res = IF written.res.tag = "Ok"
                                                   THEN Ok(th.snark) ELSE written.res]]
    /\ UNCHANGED <<env, adapter_calls, last, prev, n_calls>>
    /\ UNCHANGED <<foldVars, verifyVars, artifactVars, chunkVars, blobVars, restVars>>

ConcNext ==
    \E t \in Threads :
        \/ ConcCall(t)
        \/ ConcReadCache(t)
        \/ ConcSetVar(t)
        \/ ConcBuildCircuit(t)
        \/ ConcProve(t)
        \/ ConcWriteCache(t)

-----------------------------------------------------------------------------
(* Serialized stage executions.  The same calls, made one at a time: a thread
   takes a step of its call only while no other call is in flight, as under a
   lock around the prover.  Between two calls verifiers may be constructed;
   their constructors write the compression slot too. *)

\* consts::chunk_vk_filename(), its default.
ChunkVkFilename == "vk_chunk_zkevm.vkey"

\* zkevm::Verifier::from_params_and_assets: the result and the environment it
\* leaves.  `has_params` tells whether the parameter map holds the Layer-2
\* degree.
zkevm_from_params_and_assets(d, e, assets_dir, has_params) ==
    LET raw_vk == force_read(d, Join(assets_dir, ChunkVkFilename))
        e1 == SetVar(e, "COMPRESSION_CONFIG", LayerConfigPaths["layer2"])
    IN  IF raw_vk.tag = "Panic" THEN [res |-> raw_vk, env |-> e]
        ELSE IF ~has_params
        THEN [res |-> Panic("KZG params don't contain degree"), env |-> e1]
        ELSE IF ~VkDecodes(raw_vk.val)
        THEN [res |-> Panic("failed to deserialize vk"), env |-> e1]
        ELSE [res |-> Ok(Verifier(raw_vk.val, NoBytes)), env |-> e1]

\* The assets of the serialized runs: the batch assets, and the chunk
\* verifying key in "prod".
SerialDisk == FilePut(AssetsDisk, Join("prod", ChunkVkFilename), SampleVk)

VerifierKinds == {"chunk", "batch"}

InFlight(t) == threads[t].pc \notin {"idle", "done"}

\* No call other than that of thread t is in flight.
Alone(t) == \A u \in Threads \ {t} : ~InFlight(u)

\* A chunk or a batch verifier is constructed from an assets directory.
SerialVerifierConstruct ==
    /\ \A t \in Threads : ~InFlight(t)
    /\ \E kind \in VerifierKinds, assets_dir \in AssetsDirs, has_params \in BOOLEAN :
          LET out == IF kind = "chunk"
                     THEN zkevm_from_params_and_assets(disk, env, assets_dir, has_params)
                     ELSE from_params_and_assets(disk, env, assets_dir, has_params)
          IN  /\ env' = out.env
              /\ verifier' = IF out.res.tag = "Ok" THEN out.res.val ELSE verifier
              /\ verify_call' = VerifyCall(kind, verifier, NoProof, FALSE, "", "", <<>>)
              /\ verify_result' = IF out.res.tag = "Ok" THEN Ok(NoValue) ELSE out.res
    /\ UNCHANGED <<bundle_proof, raw_input, evm_runs>>
    /\ UNCHANGED <<disk, adapter_calls, last, prev, n_calls, foldVars, extVars>>

SerialNext ==
    \/ \E t \in Threads :
          /\ Alone(t)
          /\ \/ ConcCall(t)
             \/ ConcReadCache(t)
             \/ ConcSetVar(t)
             \/ ConcBuildCircuit(t)
             \/ ConcProve(t)
             \/ ConcWriteCache(t)
    \/ SerialVerifierConstruct

SerialInit ==
    /\ disk = SerialDisk
    /\ env = [k \in EnvKeys |-> Unset]
    /\ adapter_calls = 0
    /\ last = NoCall
    /\ prev = NoCall
    /\ n_calls = 0

-----------------------------------------------------------------------------
(* The test harness (prover/src/test/chunk.rs).  The threads of a test run
   call chunk_prove; they share the static CHUNK_PROVER, a prover behind a
   mutex that is constructed at the first dereference.  A panic while the
   guard is held unwinds through the guard: the mutex is released and
   poisoned, and every later lock() returns an error, on which the caller
   panics too. *)

\* The static before its first use.
NewMutex == [constructed |-> FALSE, owner |-> 0, poisoned |-> FALSE]

\* As if lock() did not wait for the holder.
lock_acquirable_NoWait(m) == TRUE

\* Mutex::lock blocks until no thread holds the guard.
lock_acquirable(m) == m.owner = 0

\* CHUNK_PROVER.lock(): the static is forced, then the mutex is taken; on a
\* poisoned mutex the result is an error (and the guard inside it is dropped
\* with the panic of expect).
Mutex_lock(m, t) ==
    IF m.poisoned
    THEN [res |-> Err("PoisonError"), mutex |-> [m EXCEPT !.constructed = TRUE]]
    ELSE [res |-> Ok(NoValue), mutex |-> [m EXCEPT !.constructed = TRUE, !.owner = t]]

\* The guard goes out of scope: at the end of chunk_prove, or in a panic.
MutexGuard_drop(m, panicking) ==
    [m EXCEPT !.owner = 0, !.poisoned = @ \/ panicking]

\* What gen_halo2_chunk_proof returns on success: a proof that converts to a snark.
HarnessProofs == {p \in ChunkProofs : SnarkTryFrom(p).tag = "Ok"}

\* The assets directories of the harness: with and without the chunk verifying key.
HarnessAssetsDirs == {"prod", "bare"}

IdleCaller == [pc |-> "idle", proof |-> NoProof, verified |-> FALSE, res |-> NoResult]

HarnessIdle ==
    /\ chunk_prover = NewMutex
    /\ callers = [t \in Threads |-> IdleCaller]

\* The caller panics: the guard, if held, is dropped while panicking.
Panicked(t, msg, held) ==
    /\ callers' = [callers EXCEPT ![t].pc = "panicked", ![t].res = Panic(msg)]
    /\ chunk_prover' = IF held THEN MutexGuard_drop(chunk_prover, TRUE) ELSE chunk_prover

\* chunk_prove is entered: log::info!("{desc}: chunk-prove BEGIN")
HarnessBegin(t) ==
    /\ callers[t].pc = "idle"
    /\ callers' = [callers EXCEPT ![t].pc = "lock"]
    /\ UNCHANGED chunk_prover
    /\ UNCHANGED <<cacheVars, foldVars, verifyVars, artifactVars, chunkVars, blobVars, concVars, evmVars, ioVars, otherVars>>

\* let mut prover = CHUNK_PROVER.lock().expect("poisoned chunk-prover");
HarnessLock(t) ==
    /\ callers[t].pc = "lock"
    /\ lock_acquirable(chunk_prover)
    /\ LET locked == Mutex_lock(chunk_prover, t)
       IN  IF locked.res.tag = "Ok"
           THEN /\ chunk_prover' = locked.mutex
                /\ callers' = [callers EXCEPT ![t].pc = "generate"]
           ELSE /\ chunk_prover' = locked.mutex
                /\ callers' = [callers EXCEPT ![t].pc = "panicked",
                                              ![t].res = Panic("poisoned chunk-prover")]
    /\ UNCHANGED <<cacheVars, foldVars, verifyVars, artifactVars, chunkVars, blobVars, concVars, evmVars, ioVars, otherVars>>

\* prover.gen_halo2_chunk_proof(chunk, None, None, None).unwrap_or_else(panic)
HarnessGenerate(t) ==
    /\ callers[t].pc = "generate"
    /\ \/ \E proof \in HarnessProofs :
             /\ callers' = [callers EXCEPT ![t].pc = "construct", ![t].proof = proof]
             /\ UNCHANGED chunk_prover
       \/ Panicked(t, "failed to generate chunk snark", TRUE)
    /\ UNCHANGED <<cacheVars, foldVars, verifyVars, artifactVars, chunkVars, blobVars, concVars, evmVars, ioVars, otherVars>>

\* Verifier::from_params_and_assets(prover.prover_impl.params_map, &assets_dir)
HarnessConstructVerifier(t) ==
    /\ callers[t].pc = "construct"
    /\ \E assets_dir \in HarnessAssetsDirs :
          LET out == zkevm_from_params_and_assets(disk, env, assets_dir, TRUE)
          IN  /\ env' = out.env
              /\ IF out.res.tag = "Ok"
                 THEN /\ callers' = [callers EXCEPT ![t].pc = "verify"]
                      /\ UNCHANGED chunk_prover
                 ELSE Panicked(t, out.res.err, TRUE)
    /\ UNCHANGED <<disk, adapter_calls, last, prev, n_calls>>
    /\ UNCHANGED <<foldVars, verifyVars, artifactVars, chunkVars, blobVars, concVars, evmVars, ioVars, otherVars>>

\* let verified = verifier.verify_chunk_proof(&proof); assert!(verified.is_ok(), ..)
HarnessVerify(t) ==
    /\ callers[t].pc = "verify"
    /\ \E accept \in BOOLEAN :
          IF verify_chunk_proof(callers[t].proof, accept).tag = "Ok"
          THEN /\ callers' = [callers EXCEPT ![t].pc = "end", ![t].verified = TRUE]
               /\ UNCHANGED chunk_prover
          ELSE Panicked(t, "failed to verify chunk snark", TRUE)
    /\ UNCHANGED <<cacheVars, foldVars, verifyVars, artifactVars, chunkVars, blobVars, concVars, evmVars, ioVars, otherVars>>

\* log::info!("{desc}: chunk-prove END"); proof  -- the guard is dropped on return.
HarnessReturn(t) ==
    /\ callers[t].pc = "end"
    /\ callers' = [callers EXCEPT ![t].pc = "done", ![t].res = Ok(callers[t].proof)]
    /\ chunk_prover' = MutexGuard_drop(chunk_prover, FALSE)
    /\ UNCHANGED <<cacheVars, foldVars, verifyVars, artifactVars, chunkVars, blobVars, concVars, evmVars, ioVars, otherVars>>

\* A test starts over with another chunk_prove call.
HarnessAgain(t) ==
    /\ callers[t].pc = "done"
    /\ callers' = [callers EXCEPT ![t] = IdleCaller]
    /\ UNCHANGED chunk_prover
    /\ UNCHANGED <<cacheVars, foldVars, verifyVars, artifactVars, chunkVars, blobVars, concVars, evmVars, ioVars, otherVars>>

HarnessNext ==
    \E t \in Threads :
        \/ HarnessBegin(t)
        \/ HarnessLock(t)
        \/ HarnessGenerate(t)
        \/ HarnessConstructVerifier(t)
        \/ HarnessVerify(t)
        \/ HarnessReturn(t)
        \/ HarnessAgain(t)

-----------------------------------------------------------------------------
(* The EVM sanity check of a freshly generated verifier contract
   (utils/evm.rs, proof/mod.rs). *)

\* BatchProverError::SanityEVMVerifier
SanityEVMVerifier ==
    ProverErrorValue("BatchProverError", "SanityEVMVerifier", <<>>, <<>>,
                     "EVM verifier contract could not verify proof")

\* snark_verifier::loader::evm::encode_calldata(&instances, &proof): every
\* instance as a 32-byte big-endian word, then the proof.
encode_calldata(instances, proof) ==
    Concat([i \in 1..Len(instances) |->
               Concat([j \in 1..Len(instances[i]) |-> Reverse(serialize_fr(instances[i][j]))])])
        \o proof

\* InnerProof::evm_verify: whether deploy_and_call returned Ok, with the
\* transactions run and the data of the call transaction.
evm_verify(inner, deployment_code, deploy, call) ==
    LET instances == InnerProof_instances(inner.instances)
    IN  IF instances.tag = "Panic" THEN EvmOutcome(instances, 0, <<>>)
        ELSE LET ran == deploy_and_call(deployment_code,
                                        encode_calldata(instances.val, inner.proof),
                                        deploy, call)
             IN  IF ran.res.tag = "Panic" THEN EvmOutcome(ran.res, ran.runs, ran.data)
                 ELSE EvmOutcome(Ok(ran.res.tag = "Ok"), ran.runs, ran.data)

\* What snark_verifier_sdk::gen_evm_verifier generates for the circuit: the
\* YUL source it dumps and the deployment code it returns.
YulSource == <<123, 125>>

\* gen_evm_verifier as if the contract were not run against the proof.
gen_evm_verifier_NoSanityCheck(d, evm_proof, output_dir, io, deploy, call) ==
    LET d1 == IF output_dir.some
              THEN FilePut(d, Join(output_dir.v, "evm_verifier.yul"), YulSource) ELSE d
        w == IF output_dir.some
             THEN write(d1, Join(output_dir.v, "evm_verifier.bin"), SampleCode, io)
             ELSE [res |-> Ok(NoValue), disk |-> d1]
    IN  IF w.res.tag # "Ok" THEN [res |-> w.res, disk |-> w.disk, runs |-> 0, data |-> <<>>]
        ELSE [res |-> Ok(NoValue), disk |-> w.disk, runs |-> 0, data |-> <<>>]

\* utils::gen_evm_verifier: the result, the disk it leaves, the transactions
\* run and the data of the call transaction.  `io` is the outcome of the file
\* system for the write of the contract binary.
gen_evm_verifier(d, evm_proof, output_dir, io, deploy, call) ==
    LET d1 == IF output_dir.some
              THEN FilePut(d, Join(output_dir.v, "evm_verifier.yul"), YulSource) ELSE d
        deployment_code == SampleCode
        w == IF output_dir.some
             THEN write(d1, Join(output_dir.v, "evm_verifier.bin"), deployment_code, io)
             ELSE [res |-> Ok(NoValue), disk |-> d1]
        v == evm_verify(evm_proof.proof, deployment_code, deploy, call)
    IN  IF w.res.tag # "Ok" THEN [res |-> w.res, disk |-> w.disk, runs |-> 0, data |-> <<>>]
        ELSE IF v.res.tag = "Panic"
        THEN [res |-> v.res, disk |-> w.disk, runs |-> v.runs, data |-> v.data]
        ELSE IF v.res.val
        THEN [res |-> Ok(NoValue), disk |-> w.disk, runs |-> v.runs, data |-> v.data]
        ELSE [res |-> Err(SanityEVMVerifier), disk |-> w.disk, runs |-> v.runs,
              data |-> v.data]

\* EvmProof { proof, num_instance }
EvmProof(proof, num_instance) == [proof |-> proof, num_instance |-> num_instance]

\* EVM proofs: built by EvmProof::new from one column of field elements, or
\* read by EvmProof::from_json_file from a file whose instance bytes are cut.
EvmProofs ==
    {EvmProof(InnerProof_new(<<7, 9, 11>>, <<col>>, SampleVk).val, <<Len(col)>>) :
        col \in SeqsUpTo(FrSamples, MaxElems)}
    \cup {EvmProof(InnerProof(<<7, 9, 11>>, <<5>>, SampleVk), <<1>>)}

NoEvmCall ==
    [made |-> FALSE, evm_proof |-> EvmProof(NoProof, <<>>), output_dir |-> None,
     io |-> "", deploy |-> "", call |-> "", res |-> NoResult, runs |-> 0, sent |-> <<>>]

EvmIdle == evm_call = NoEvmCall

\* gen_evm_verifier::<C>(params, vk, evm_proof, output_dir)
GenEvmVerifier ==
    /\ \E evm_proof \in EvmProofs, output_dir \in OutputDirs, io \in IoOutcomes,
          deploy \in DeployOutcomes, call \in CallOutcomes :
          LET out == gen_evm_verifier(disk, evm_proof, output_dir, io, deploy, call)
          IN  /\ disk' = out.disk
              /\ evm_call' = [made |-> TRUE, evm_proof |-> evm_proof,
                              output_dir |-> output_dir, io |-> io, deploy |-> deploy,
                              call |-> call, res |-> out.res, runs |-> out.runs,
                              sent |-> out.data]
    /\ UNCHANGED <<env, adapter_calls, last, prev, n_calls>>
    /\ UNCHANGED <<foldVars, verifyVars, artifactVars, chunkVars, blobVars, concVars,
                   harnessVars, ioVars, otherVars>>

EvmNext == GenEvmVerifier

-----------------------------------------------------------------------------
(* The file helpers (utils/io.rs), called one after another on one disk. *)

FileHelpers == {"read", "read_json", "read_json_deep", "write", "write_json"}

\* The files the helpers are called on: JSON files and a file of bytes.
JsonPaths == {Join("out", "a.json"), Join("out", "b.json")}

BytesPath == Join("out", "a.bin")

\* The paths a helper is called with.
HelperPaths(helper) ==
    CASE helper = "read"  -> JsonPaths \cup {BytesPath}
      [] helper = "write" -> {BytesPath}
      [] OTHER            -> JsonPaths

\* What is written: the bytes for write, the value for write_json.
WrittenBytes == <<1, 2>>

WrittenValues == {Snark("compression", "layer1", "in1"), Snark("compression", "layer2", "in2")}

\* The result of a helper and the disk it leaves.
HelperOutcome(d, helper, path, value, io) ==
    CASE helper = "read"           -> [res |-> read(d, path), disk |-> d]
      [] helper = "read_json"      -> [res |-> read_json(d, path), disk |-> d]
      [] helper = "read_json_deep" -> [res |-> read_json_deep(d, path), disk |-> d]
      [] helper = "write"          -> write(d, path, WrittenBytes, io)
      [] OTHER                     -> write_json(d, path, value, io)

NoIoCall == [made |-> FALSE, helper |-> "", path |-> "", res |-> NoResult]

IoIdle == io_call = NoIoCall

\* One call of a file helper.
FileHelperCall ==
    /\ \E helper \in FileHelpers, value \in WrittenValues, io \in IoOutcomes :
          \E path \in HelperPaths(helper) :
             LET out == HelperOutcome(disk, helper, path, value, io)
             IN  /\ disk' = out.disk
                 /\ io_call' = [made |-> TRUE, helper |-> helper, path |-> path,
                                res |-> out.res]
    /\ UNCHANGED <<env, adapter_calls, last, prev, n_calls>>
    /\ UNCHANGED <<foldVars, verifyVars, artifactVars, chunkVars, blobVars, concVars,
                   harnessVars, evmVars, otherVars>>

IoNext == FileHelperCall

-----------------------------------------------------------------------------
(* The bytes of a blob: the batch bytes, encoded when that makes them
   shorter. *)

MaxBatchBytes == 7

\* The batch bytes handed to get_blob_bytes: runs of two byte values.
BatchBytes == SeqsUpTo({0, 7}, MaxBatchBytes)

NoBlobBytesCall == [made |-> FALSE, batch_bytes |-> <<>>, res |-> <<>>]

\* One call of get_blob_bytes.
GetBlobBytes ==
    /\ ~blob_bytes_call.made
    /\ \E batch_bytes \in BatchBytes :
          blob_bytes_call' = [made |-> TRUE, batch_bytes |-> batch_bytes,
                              res |-> get_blob_bytes(batch_bytes)]
    /\ UNCHANGED <<key_paths, evm_log, conversions>>
    /\ UNCHANGED <<cacheVars, foldVars, verifyVars, artifactVars, chunkVars, blobVars,
                   concVars, harnessVars, evmVars, ioVars>>

BlobBytesNext == GetBlobBytes

-----------------------------------------------------------------------------
(* The paths of cache keys.  A cache key is a stage kind, a layer id and an
   artifact name; every load_or_gen operation forms the path of its key in
   the output directory. *)

\* The stage kinds of the four load_or_gen operations.
StageKinds == {"inner", "compression", "aggregation", "recursion"}

\* LayerId::id of every layer.
LayerIds == {"inner"} \cup DOMAIN LayerConfigPaths

\* Artifact names are free strings.
KeyNames == {"0", "0_1", "layer1_0", "snark_layer1_0"}

KeyDirs == {"out", "out/compression_snark_layer1"}

CacheKeys == [stage : StageKinds, id : LayerIds, name : KeyNames]

NoKeyPaths == [made |-> FALSE, dir |-> "", a |-> <<>>, b |-> <<>>, path_a |-> "", path_b |-> ""]

OtherIdle ==
    /\ key_paths = NoKeyPaths
    /\ evm_log = <<>>
    /\ conversions = <<>>
    /\ blob_bytes_call = NoBlobBytesCall

\* Two load_or_gen calls with one output directory form the paths of their keys.
FormCachePaths ==
    /\ ~key_paths.made
    /\ \E dir \in KeyDirs, a \in CacheKeys, b \in CacheKeys :
          key_paths' = [made |-> TRUE, dir |-> dir, a |-> a, b |-> b,
                        path_a |-> CachePath(a.stage, dir, a.id, a.name),
                        path_b |-> CachePath(b.stage, dir, b.id, b.name)]
    /\ UNCHANGED <<evm_log, conversions, blob_bytes_call>>
    /\ UNCHANGED <<cacheVars, foldVars, verifyVars, artifactVars, chunkVars, blobVars,
                   concVars, harnessVars, evmVars, ioVars>>

KeysNext == FormCachePaths

-----------------------------------------------------------------------------
(* deploy_and_call invocations of one process, one after another. *)

MaxEvmCalls == 2

DeploymentCodes == {<<96, 128>>, <<254>>}

Calldatas == {<<>>, <<1, 2>>}

\* One invocation of deploy_and_call.
DeployAndCall ==
    /\ Len(evm_log) < MaxEvmCalls
    /\ \E deployment_code \in DeploymentCodes, data \in Calldatas,
          deploy \in DeployOutcomes, call \in CallOutcomes :
          evm_log' = Append(evm_log,
              [deployment_code |-> deployment_code, calldata |-> data,
               deploy |-> deploy, call |-> call,
               out |-> deploy_and_call(deployment_code, data, deploy, call)])
    /\ UNCHANGED <<key_paths, conversions, blob_bytes_call>>
    /\ UNCHANGED <<cacheVars, foldVars, verifyVars, artifactVars, chunkVars, blobVars,
                   concVars, harnessVars, evmVars, ioVars>>

DeployNext == DeployAndCall

-----------------------------------------------------------------------------
(* Conversions of proof artifacts into snarks. *)

MaxConversions == 2

\* Bundle proofs: 25 words of instances, canonical or not.
BundleProofs ==
    {ProofV2(BundleProofV2Metadata, <<7, 9, 11>>, Repeat(w, 25), SampleVk) :
        w \in {OneBE, AllOnesBE}}

\* Instances bytes of the chunk and batch proofs converted: no word, one and
\* two words of field elements, a word that is no field element and a
\* single byte.
ConvertInstances == {<<>>, OneBE, OneBE \o ModulusMinusOneBE, FrModulusBE, <<5>>}

ConvertedProofs ==
    {ProofV2(inner, <<7, 9, 11>>, in, SampleVk) :
        inner \in {ChunkProofV2Metadata(pr) : pr \in ProtocolBytes}
                     \cup {BatchProofV2Metadata(pr) : pr \in ProtocolBytes},
        in \in ConvertInstances}

\* Snark::try_from(&proof) on a chunk, batch or bundle proof.
ConvertProof ==
    /\ Len(conversions) < MaxConversions
    /\ \E value \in ConvertedProofs \cup BundleProofs :
          conversions' = Append(conversions, [value |-> value, res |-> SnarkTryFrom(value)])
    /\ UNCHANGED <<key_paths, evm_log, blob_bytes_call>>
    /\ UNCHANGED <<cacheVars, foldVars, verifyVars, artifactVars, chunkVars, blobVars,
                   concVars, harnessVars, evmVars, ioVars>>

ConvertNext == ConvertProof

-----------------------------------------------------------------------------
RestIdle == HarnessIdle /\ EvmIdle /\ IoIdle /\ OtherIdle

ExtIdle == ArtifactIdle /\ ChunkIdle /\ BlobIdle /\ ConcIdle /\ RestIdle

-----------------------------------------------------------------------------
(* Specifications. *)

InitKeys == CacheInit /\ FoldIdle /\ VerifyIdle /\ ExtIdle

SpecKeys == InitKeys /\ [][KeysNext]_vars

InitDeploy == CacheInit /\ FoldIdle /\ VerifyIdle /\ ExtIdle

SpecDeploy == InitDeploy /\ [][DeployNext]_vars

InitConvert == CacheInit /\ FoldIdle /\ VerifyIdle /\ ExtIdle

SpecConvert == InitConvert /\ [][ConvertNext]_vars

InitBlobBytes == CacheInit /\ FoldIdle /\ VerifyIdle /\ ExtIdle

SpecBlobBytes == InitBlobBytes /\ [][BlobBytesNext]_vars

InitCache == CacheInit /\ FoldIdle /\ VerifyIdle /\ ExtIdle

SpecCache == InitCache /\ [][CacheNext]_vars

InitFold == CacheInit /\ FoldInit /\ VerifyIdle /\ ExtIdle

SpecFold == InitFold /\ [][FoldNext]_vars

\* gen_recursion_snark is sequential code: a statement that can run, runs.
SpecFoldFair == SpecFold /\ WF_vars(FoldNext)

InitVerify == VerifyInit /\ FoldIdle /\ ExtIdle

SpecVerify == InitVerify /\ [][VerifyNext]_vars

SpecBundle == InitVerify /\ [][BundleNext]_vars

InitArtifact == CacheInit /\ FoldIdle /\ VerifyIdle /\ ExtIdle

SpecArtifact == InitArtifact /\ [][ArtifactNext]_vars

InitChunk == CacheInit /\ FoldIdle /\ VerifyIdle /\ ExtIdle

SpecChunk == InitChunk /\ [][ChunkNext]_vars

InitBlob == CacheInit /\ FoldIdle /\ VerifyIdle /\ ExtIdle

SpecBlob == InitBlob /\ [][BlobNext]_vars

InitConcurrent == CacheInit /\ FoldIdle /\ VerifyIdle /\ ExtIdle

SpecConcurrent == InitConcurrent /\ [][ConcNext]_vars

InitSerialized == SerialInit /\ FoldIdle /\ VerifyIdle /\ ExtIdle

SpecSerialized == InitSerialized /\ [][SerialNext]_vars

InitHarness == SerialInit /\ FoldIdle /\ VerifyIdle /\ ExtIdle

SpecHarness == InitHarness /\ [][HarnessNext]_vars

\* A caller that can take a step of chunk_prove takes it: threads run.
SpecHarnessFair == SpecHarness /\ \A t \in Threads :
    WF_vars(HarnessGenerate(t) \/ HarnessConstructVerifier(t) \/ HarnessVerify(t)
            \/ HarnessReturn(t))

InitEvm == CacheInit /\ FoldIdle /\ VerifyIdle /\ ExtIdle

SpecEvm == InitEvm /\ [][EvmNext]_vars

InitIo == CacheInit /\ FoldIdle /\ VerifyIdle /\ ExtIdle

SpecIo == InitIo /\ [][IoNext]_vars

SpecFoldRetry == InitFold /\ [][FoldNext \/ FoldRetry]_vars

Init == InitCache

Next == CacheNext

Spec == SpecCache

-----------------------------------------------------------------------------
(* Properties of the snark cache (SpecCache). *)

\* The last two calls were made with the same cache key and output directory.
SameKey ==
    /\ n_calls >= 2
    /\ last.stage = prev.stage
    /\ last.id = prev.id
    /\ last.name = prev.name
    /\ last.dir = prev.dir

\* C1, as stated: whenever two calls in sequence have the same (stage, layer
\* id, artifact name, output directory) and the first returned a snark, the
\* second returns an equal snark and does not invoke the circuit adapter.
C1_IdempotentForAnyOutputDir ==
    (SameKey /\ prev.res.tag = "Ok")
        => /\ last.res.tag = "Ok"
           /\ last.res.val = prev.res.val
           /\ last.invoked = 0

\* C1, amended: the same, for calls that are given an output directory.  Without
\* one nothing is stored, and the second call generates again.
C1_IdempotentWithOutputDir ==
    (SameKey /\ prev.dir.some /\ prev.res.tag = "Ok")
        => /\ last.res.tag = "Ok"
           /\ last.res.val = prev.res.val
           /\ last.invoked = 0

\* The first call missed, generated and stored; the second, with the same key,
\* returned the same snark without the adapter.
C1_Witness ==
    /\ SameKey
    /\ prev.dir.some
    /\ prev.res.tag = "Ok"
    /\ prev.invoked = 1
    /\ ~prev.hit
    /\ last.res = prev.res
    /\ last.invoked = 0
    /\ adapter_calls = 1

\* C2: when an output directory is given and the cache file at the key
\* decodes, the call returns the stored snark and does not invoke the circuit
\* adapter, whatever the inputs it was given: the inputs are never compared to
\* the stored snark.
C2_CacheHitReturnsStored ==
    (n_calls >= 1 /\ last.dir.some /\ last.before.tag = "Ok")
        => /\ last.res.tag = "Ok"
           /\ last.res.val = last.before.val
           /\ last.invoked = 0
           /\ last.hit

\* An aggregation call hit the file stored by a call with other inputs, and
\* returned the snark generated from those other inputs.
C2_Witness ==
    /\ SameKey
    /\ last.stage = "aggregation"
    /\ last.dir.some
    /\ last.before.tag = "Ok"
    /\ last.inputs # prev.inputs
    /\ last.res.tag = "Ok"
    /\ last.res.val = last.before.val
    /\ prev.invoked = 1
    /\ last.res.val = prev.res.val
    /\ last.invoked = 0

-----------------------------------------------------------------------------
(* Properties of the recursion fold (SpecFold, SpecFoldFair). *)

\* While the loop runs, the batches folded and the batches left are the list
\* the fold was given; one proof was generated per round.
FoldProgress ==
    pc \in {"loop", "done"}
        => /\ n_rounds + Len(task) = Len(batch_snarks)
           /\ task = SubSeq(batch_snarks, n_rounds + 1, Len(batch_snarks))
           /\ Len(proofs) = n_rounds
           /\ (completed(task) <=> n_rounds = Len(batch_snarks))

\* The fold returns a snark after exactly as many rounds as there are batches.
FoldRounds ==
    pc = "done"
        => /\ batch_snarks # <<>>
           /\ n_rounds = Len(batch_snarks)
           /\ Len(proofs) = Len(batch_snarks)
           /\ Len(fold_result.val.rounds) = Len(batch_snarks)

\* A step of the loop that changes the task takes away exactly its first batch
\* and counts one round.
FoldConsumesOne ==
    (pc = "loop" /\ task' # task)
        => /\ task' = Tail(task)
           /\ Len(task') = Len(task) - 1
           /\ n_rounds' = n_rounds + 1
           /\ Len(proofs') = Len(proofs) + 1

\* C3: for a non-empty list of N batch snarks the fold loop ends, after
\* exactly N rounds and N recursion proofs when it returns a snark; every
\* state transition of the task consumes exactly one batch, and the task is
\* completed only once all N batches are consumed.
C3_FoldTerminatesInNRounds ==
    /\ [](FoldProgress /\ FoldRounds)
    /\ [][FoldConsumesOne]_vars
    /\ <>FoldReturned

\* A fold of at least two batches returned after one round per batch.
C3_Witness ==
    /\ pc = "done"
    /\ Len(batch_snarks) >= 2
    /\ n_rounds = Len(batch_snarks)
    /\ Len(proofs) = n_rounds
    /\ completed(task)

\* C4: with an empty list of batch snarks the fold fails at its first
\* statement: it never builds the placeholder snark or a recursion circuit,
\* never generates a key or a proof, never enters the loop, and its only
\* outcome is the panic of the assertion.
C4_EmptyListFailsFast ==
    batch_snarks = <<>>
        => /\ pc \in {"start", "panicked"}
           /\ ~init_snark.made
           /\ ~circuit_for_pk.built
           /\ circuits = <<>>
           /\ keygens = 0
           /\ proofs = <<>>
           /\ ~cur_snark.made
           /\ env["BUNDLE_CONFIG"] = Unset
           /\ (pc = "panicked" => fold_result.tag = "Panic")

\* The fold of the empty list has failed.
C4_Witness ==
    /\ batch_snarks = <<>>
    /\ pc = "panicked"
    /\ fold_result = Panic("assertion failed: !batch_snarks.is_empty()")
    /\ circuits = <<>>
    /\ keygens = 0

\* C5: the circuit built on the placeholder snark is used for key generation
\* only: every proof is generated from a circuit built on a snark that carries
\* the verifying key, never from circuit_for_pk; the legitimate initial snark
\* exists only after key generation; and the snark the fold returns descends
\* from the legitimate initial snark.
C5_TwoPhaseBootstrap ==
    /\ circuit_for_pk.built => circuit_for_pk.previous = initial_recursion_snark(None)
    /\ \A i \in DOMAIN proofs :
          /\ proofs[i].circuit # circuit_for_pk
          /\ proofs[i].circuit.previous.vk = Some(pk.vk)
    /\ cur_snark.made => /\ keygens >= 1
                         /\ pk.made
                         /\ cur_snark.vk = Some(pk.vk)
    /\ pc = "done" => /\ fold_result.tag = "Ok"
                      /\ fold_result.val.vk = Some(pk.vk)
                      /\ fold_result.val.rounds # <<>>

\* A fold returned: the key came from the placeholder circuit, the returned
\* snark from the legitimate initial snark.
C5_Witness ==
    /\ pc = "done"
    /\ circuit_for_pk.built
    /\ ~circuit_for_pk.previous.vk.some
    /\ keygens = 1
    /\ fold_result.tag = "Ok"
    /\ fold_result.val.vk.some
    /\ Len(circuits) = Len(proofs) + 1

-----------------------------------------------------------------------------
(* Properties of bundle proofs and of the verifiers (SpecBundle, SpecVerify). *)

C7_NewFromRawChecksLength ==
    raw_input.made
        => IF Len(raw_input.instances) = 800
           THEN /\ bundle_proof.tag = "Ok"
                /\ bundle_proof.val.inner = BundleProofV2Metadata
                /\ bundle_proof.val.proof = raw_input.proof
                /\ bundle_proof.val.instances = raw_input.instances
                /\ bundle_proof.val.vk = raw_input.vk
           ELSE /\ bundle_proof.tag = "Err"
                /\ bundle_proof.err.type = "BatchProverError"
                /\ bundle_proof.err.kind = "PublicInputsMismatch"
                /\ bundle_proof.err.a = 800
                /\ bundle_proof.err.b = Len(raw_input.instances)

\* Instances one byte short of 800 were refused.
C7_Witness ==
    /\ raw_input.made
    /\ Len(raw_input.instances) = 799
    /\ bundle_proof = Err(PublicInputsMismatch(800, 799))

\* C8, as stated: verify_chunk_proof and verify_batch_proof return Ok or a
\* typed error for every proof they are given, and never panic.
C8_VerifyNeverPanics ==
    verify_call.op \in {"verify_chunk_proof", "verify_batch_proof"}
        => verify_result.tag \in {"Ok", "Err"}

C10_OkIffDeployAndCallSucceed ==
    (verify_call.op = "verify_bundle_proof" /\ verify_call.verifier.deployment_code.some)
        => /\ verify_result.tag = "Ok"
                <=> (verify_call.deploy = "success" /\ verify_call.call = "success")
           /\ verify_call.deploy = "success"
                => /\ evm_runs = 2
                   /\ verify_call.sent = calldata(verify_call.proof)
           /\ (verify_call.deploy = "success" /\ verify_call.call \in {"revert", "halt"})
                => /\ verify_result.tag = "Err"
                   /\ verify_result.err.type = "BatchProverError"
                   /\ verify_result.err.kind = "Custom"

\* The contract was deployed and the call reverted.
C10_Witness ==
    /\ verify_call.op = "verify_bundle_proof"
    /\ verify_call.verifier.deployment_code.some
    /\ verify_call.deploy = "success"
    /\ verify_call.call = "revert"
    /\ evm_runs = 2
    /\ verify_result = Err(BatchCustom("Contract call transaction reverts"))

-----------------------------------------------------------------------------
(* Properties of the proof artifacts (SpecArtifact). *)

\* The artifact was built from one column of field elements.
BuiltFromColumn == artifact.res.tag = "Ok" /\ Len(art_snark.instances) = 1

\* C11: the instances bytes of a column of field elements are the elements'
\* 32-byte representations, each reversed to big-endian, one after another;
\* decoding them per 32-byte chunk gives back the column, and serializing the
\* decoded column gives back the same bytes.
C11_InstancesRoundTrip ==
    BuiltFromColumn
        => LET column == art_snark.instances[1]
               bytes == artifact.res.val.instances
           IN  /\ Len(bytes) = 32 * Len(column)
               /\ \A i \in 1..Len(column) :
                     SubSeq(bytes, 32 * (i - 1) + 1, 32 * i) = Reverse(column[i])
               /\ decoded # NoResult
                     => /\ decoded.tag = "Ok"
                        /\ decoded.val = art_snark.instances
               /\ reencoded # NoResult
                     => /\ reencoded.tag = "Ok"
                        /\ reencoded.val = bytes

\* A column of two different elements went through encoding, decoding and
\* encoding again.
C11_Witness ==
    /\ BuiltFromColumn
    /\ Len(art_snark.instances[1]) = 2
    /\ art_snark.instances[1][1] # art_snark.instances[1][2]
    /\ decoded = Ok(art_snark.instances)
    /\ reencoded = Ok(artifact.res.val.instances)

\* C12: the instances of every artifact, of chunk, batch or bundle kind or an
\* InnerProof, are a whole number of 32-byte words after construction, after
\* decoding and encoding again, and after a dump followed by from_json.
C12_InstancesAreWords ==
    /\ artifact.res.tag = "Ok" => Len(artifact.res.val.instances) % 32 = 0
    /\ reencoded.tag = "Ok" => Len(reencoded.val) % 32 = 0
    /\ (dumped.res.tag = "Ok" /\ loaded.res.tag = "Ok")
          => Len(loaded.res.val.instances) % 32 = 0

\* A batch proof of one element was dumped and read back.
C12_Witness ==
    /\ artifact.type = "ProofV2"
    /\ artifact.res.tag = "Ok"
    /\ artifact.res.val.inner.NAME = "batch"
    /\ Len(artifact.res.val.instances) = 32
    /\ dumped.res.tag = "Ok"
    /\ loaded.res.tag = "Ok"
    /\ Len(loaded.res.val.instances) = 32

\* from_json was called for the directory, suffix and kind of the dump.
LoadedWhatWasDumped ==
    /\ dumped.made
    /\ dumped.res.tag = "Ok"
    /\ loaded.made
    /\ loaded.dir = dumped.dir
    /\ loaded.suffix = dumped.suffix
    /\ loaded.name = artifact.res.val.inner.NAME

\* C13: a successful dump(dir, suffix) leaves the JSON of the proof in
\* dir/proof_{NAME}_{suffix}.json and the raw verifying key in
\* dir/vk_{NAME}_{suffix}.vkey, and from_json(dir, suffix) then returns an
\* artifact with the same proof, instances, vk, git version and metadata.
C13_DumpThenFromJson ==
    /\ (dumped.made /\ dumped.res.tag = "Ok")
          => LET name == artifact.res.val.inner.NAME
                 json == dumped.dir \o "/proof_" \o name \o "_" \o dumped.suffix \o ".json"
                 vkey == dumped.dir \o "/vk_" \o name \o "_" \o dumped.suffix \o ".vkey"
             IN  /\ json \in DOMAIN disk
                 /\ vkey \in DOMAIN disk
                 /\ disk[vkey] = artifact.res.val.vk
                 /\ disk[json] = ToJson(ProofV2_serialize(artifact.res.val))
    /\ LoadedWhatWasDumped
          => /\ loaded.res.tag = "Ok"
             /\ loaded.res.val.proof = artifact.res.val.proof
             /\ loaded.res.val.instances = artifact.res.val.instances
             /\ loaded.res.val.vk = artifact.res.val.vk
             /\ loaded.res.val.git_version = artifact.res.val.git_version
             /\ loaded.res.val.inner = artifact.res.val.inner

\* A chunk proof was dumped with suffix "a" and read back.
C13_Witness ==
    /\ LoadedWhatWasDumped
    /\ loaded.name = "chunk"
    /\ "out/proof_chunk_a.json" \in DOMAIN disk
    /\ "out/vk_chunk_a.vkey" \in DOMAIN disk
    /\ "out/protocol_chunk_a.protocol" \in DOMAIN disk
    /\ loaded.res = Ok(artifact.res.val)
    /\ artifact.res.val.instances # <<>>

-----------------------------------------------------------------------------
(* Properties of the chunk info comparison (SpecChunk). *)

AllComparedFields == ComparedFields \o <<"tx_bytes">>

\* The positions, in the order of comparison, of the fields on which the two
\* arguments of the last call differ.
Differing ==
    {i \in 1..Len(AllComparedFields) :
        compared.lhs[AllComparedFields[i]] # compared.rhs[AllComparedFields[i]]}

FirstDiffering == CHOOSE i \in Differing : \A j \in Differing : i <= j

\* C14: compare_chunk_info returns Ok exactly when the two chunk infos agree on
\* chain_id, prev_state_root, post_state_root, withdraw_root, data_hash and
\* tx_bytes; otherwise it returns an error message that names the first field,
\* in that order, on which they differ (the only one, if one field differs).
C14_CompareNamesFirstDifference ==
    compared.made
        => /\ compared.res.tag \in {"Ok", "Err"}
           /\ compared.res.tag = "Ok" <=> Differing = {}
           /\ compared.res.tag = "Err"
                 => NamedField(compared.res.err) = AllComparedFields[FirstDiffering]

\* A call on chunk infos that differ in data_hash and tx_bytes only.
C14_Witness ==
    /\ compared.made
    /\ Differing = {5, 6}
    /\ compared.res.tag = "Err"
    /\ NamedField(compared.res.err) = "data_hash"

-----------------------------------------------------------------------------
(* Properties of the blob consistency witness (SpecBlob). *)

\* C15: for any commitment, byte 0 of the versioned hash is the KZG version
\* tag, and bytes 1..31 are bytes 1..31 of the hash of the commitment.
C15_VersionedHashIsTaggedHash ==
    versioned.made
        => /\ Len(versioned.res) = 32
           /\ versioned.res[1] = VERSIONED_HASH_VERSION_KZG
           /\ \A i \in 2..32 : versioned.res[i] = Sha256(versioned.commitment)[i]

\* A commitment whose hash does not start with the tag was hashed.
C15_Witness ==
    /\ versioned.made
    /\ Sha256(versioned.commitment)[1] # VERSIONED_HASH_VERSION_KZG
    /\ versioned.res[1] = VERSIONED_HASH_VERSION_KZG

\* C16: two constructions of BlobConsistencyWitness in one process from the
\* same raw bytes and the same batch metadata give the same versioned hash,
\* challenge digest and evaluation, whatever was constructed before them.
C16_WitnessIsDeterministic ==
    \A i, j \in 1..Len(blob_calls) :
        (/\ blob_calls[i].bytes = blob_calls[j].bytes
         /\ blob_calls[i].batch_data = blob_calls[j].batch_data)
            => blob_calls[i].res = blob_calls[j].res

\* The same witness was constructed twice, the first time before the trusted
\* setup was loaded and the second time after.
C16_Witness ==
    /\ Len(blob_calls) >= 2
    /\ blob_calls[1].bytes = blob_calls[2].bytes
    /\ blob_calls[1].batch_data = blob_calls[2].batch_data
    /\ blob_calls[1].bytes # <<>>
    /\ blob_calls[1].res.tag = "Ok"
    /\ blob_calls[2].res = blob_calls[1].res
    /\ kzg_setup.loaded

-----------------------------------------------------------------------------
(* Properties of the cache on a miss, of existing entries and of the frame
   of a call (SpecCache). *)

\* The cache file of the last call.
LastPath == CachePath(last.stage, last.dir.v, last.id, last.name)

\* The last call had an output directory and found no readable artifact.
MissWithDir == n_calls > 0 /\ last.dir.some /\ last.before.tag # "Ok"

\* Whenever a call with an output directory returns Ok, the cache file at its
\* key holds the returned snark.
StoredIsReturned ==
    (n_calls > 0 /\ last.dir.some /\ last.res.tag = "Ok")
        => /\ LastPath \in DOMAIN disk
           /\ disk[LastPath] = ToJson(last.res.val)

\* C17 as stated: on a miss with an output directory the call that returns a
\* snark has invoked the circuit adapter exactly once and the cache file holds
\* that snark; whenever a call with an output directory returns Ok the cache
\* file holds the returned snark.
C17_MissInvokesAdapterOnce ==
    /\ (MissWithDir /\ last.res.tag = "Ok") => last.invoked = 1
    /\ StoredIsReturned

\* The number of adapter invocations a stage makes to generate its snark:
\* one, and for the recursion stage one for every batch snark.
InvocationsOf(stage, inputs) ==
    IF stage = "recursion"
    THEN Len((CHOOSE in \in RecursionInputs : ToString(in) = inputs).batch_snarks)
    ELSE 1

\* C17, amended: on a miss with an output directory the call that returns a
\* snark has invoked the adapter once for the inner, compression and
\* aggregation stages and once for every batch snark for the recursion stage,
\* and a call that fails has not invoked it more often; whenever a call with an output
\* directory returns Ok the cache file at the key holds the returned snark.
C17_MissGeneratesThenStores ==
    /\ (MissWithDir /\ last.res.tag = "Ok")
          => /\ ~last.hit
             /\ last.invoked = InvocationsOf(last.stage, last.inputs)
             /\ last.invoked >= 1
    /\ (MissWithDir /\ last.res.tag # "Ok")
          => last.invoked <= InvocationsOf(last.stage, last.inputs)
    /\ StoredIsReturned

\* A recursion call over two batch snarks missed, invoked the adapter twice
\* and stored the snark it returned.
C17_Witness ==
    /\ MissWithDir
    /\ last.stage = "recursion"
    /\ last.res.tag = "Ok"
    /\ last.invoked = 2
    /\ LastPath \in DOMAIN disk
    /\ disk[LastPath] = ToJson(last.res.val)

\* The cache file of the call that returns in this step.
NextPath == CachePath(last'.stage, last'.dir.v, last'.id, last'.name)

\* C18 as stated: if a file exists at the cache key, the call returns its
\* contents and leaves the file unchanged.
C18_ExistingFileIsReturnedUnchanged ==
    [][(last'.dir.some /\ NextPath \in DOMAIN disk)
          => /\ last'.res = FromJson(disk[NextPath])
             /\ last'.res.tag = "Ok"
             /\ NextPath \in DOMAIN disk'
             /\ disk'[NextPath] = disk[NextPath]]_vars

\* C18, amended: if the file at the cache key decodes as a snark, the call
\* returns that snark without invoking the adapter and leaves the whole disk
\* unchanged; a file that exists but does not decode is treated as a miss, and
\* a call that then returns a snark has replaced the file by that snark.
C18_DecodableEntryIsNeverOverwritten ==
    [][/\ (last'.dir.some /\ read_json_deep(disk, NextPath).tag = "Ok")
            => /\ last'.res = read_json_deep(disk, NextPath)
               /\ last'.hit
               /\ last'.invoked = 0
               /\ disk' = disk
       /\ (/\ last'.dir.some
           /\ NextPath \in DOMAIN disk
           /\ read_json_deep(disk, NextPath).tag # "Ok"
           /\ last'.res.tag = "Ok")
            => /\ ~last'.hit
               /\ disk'[NextPath] = ToJson(last'.res.val)]_vars

\* A second call with other inputs returned the entry the first call stored,
\* and the entry is still the first call's.
C18_Witness ==
    /\ n_calls >= 2
    /\ last.dir.some
    /\ last.hit
    /\ SameKey
    /\ last.inputs # prev.inputs
    /\ ~prev.hit
    /\ prev.res.tag = "Ok"
    /\ disk[LastPath] = ToJson(prev.res.val)
    /\ last.res = prev.res

\* No cache entry other than the one at the key of the returning call changes.
OtherEntriesUnchanged ==
    /\ DOMAIN disk \subseteq DOMAIN disk'
    /\ \A p \in DOMAIN disk' :
          (~last'.dir.some \/ p # NextPath) => (p \in DOMAIN disk /\ disk'[p] = disk[p])

\* C19 as stated: the call changes the cache entry at its own key and no
\* other cache entry or process-wide state.
C19_OnlyOwnCacheEntryChanges ==
    [][OtherEntriesUnchanged /\ env' = env]_vars

\* The configuration slot that a stage sets before it builds its circuit.
SlotsOf(stage) ==
    CASE stage = "compression" -> {"COMPRESSION_CONFIG"}
      [] stage = "aggregation" -> {"AGGREGATION_CONFIG"}
      [] stage = "recursion"   -> {"BUNDLE_CONFIG"}
      [] OTHER                 -> {}

\* C19, amended: the call changes no cache entry other than the one at its own
\* key; of the process-wide state it changes at most the configuration slot of
\* its own stage, which it sets to the configuration path of its layer id, and
\* a call that returns the cached snark changes nothing at all.
C19_OwnCacheEntryAndOwnConfigSlot ==
    [][/\ OtherEntriesUnchanged
       /\ \A k \in EnvKeys :
             env'[k] # env[k]
                => /\ k \in SlotsOf(last'.stage)
                   /\ ~last'.hit
                   /\ env'[k] = layer_config_path(last'.id).val
       /\ last'.hit => (env' = env /\ disk' = disk)]_vars

\* Two calls stored two entries; the second left the first entry alone and set
\* the slot of its stage.
C19_Witness ==
    /\ n_calls >= 2
    /\ prev.dir.some /\ last.dir.some
    /\ ~SameKey
    /\ prev.res.tag = "Ok" /\ last.res.tag = "Ok"
    /\ ~last.hit
    /\ last.stage = "compression"
    /\ CachePath(prev.stage, prev.dir.v, prev.id, prev.name) \in DOMAIN disk
    /\ disk[CachePath(prev.stage, prev.dir.v, prev.id, prev.name)] = ToJson(prev.res.val)
    /\ disk[LastPath] = ToJson(last.res.val)
    /\ env["COMPRESSION_CONFIG"] = LayerConfigPaths["layer1"]

-----------------------------------------------------------------------------
(* Properties of concurrent load_or_gen calls (SpecConcurrent). *)

\* Both calls have returned a snark, and their cache files are distinct.
BothReturned ==
    /\ \A t \in Threads : threads[t].pc = "done" /\ threads[t].res.tag = "Ok"
    /\ ThreadPath(1) # ThreadPath(2)

\* Every call returned the snark of its own inputs.
OwnInputs ==
    \A t \in Threads :
        threads[t].res.val.proof = Snark(threads[t].stage, threads[t].id, threads[t].inputs).proof

\* Every call's snark was built against the configuration of its own layer.
OwnConfig ==
    \A t \in Threads :
        threads[t].res.val.protocol
            = SnarkBuiltWith(threads[t].stage, threads[t].id, threads[t].inputs,
                             LayerConfigPaths[threads[t].id]).protocol

\* Every cache file holds the snark its call returned.
OwnFile ==
    \A t \in Threads :
        /\ ThreadPath(t) \in DOMAIN disk
        /\ disk[ThreadPath(t)] = ToJson(threads[t].res.val)

\* C20 as stated: two concurrent calls with distinct cache paths each return
\* the snark for their own inputs built against their own layer's
\* configuration, and each cache file ends up holding its own call's snark.
C20_ConcurrentCallsAreIndependent ==
    BothReturned => (OwnInputs /\ OwnConfig /\ OwnFile)

-----------------------------------------------------------------------------
(* Properties of serialized stage executions (SpecSerialized). *)

\* The circuit of thread t's call has been constructed.
CircuitBuilt(t) ==
    \/ threads[t].pc \in {"prove", "write"}
    \/ threads[t].pc = "done" /\ threads[t].config # Unset

\* C21: when stage executions and verifier constructions are serialized,
\* every compression, aggregation and recursion circuit is constructed while
\* the configuration slot of its stage holds the configuration path of the
\* call's own layer id: after the call's set_var and until its circuit is
\* constructed the slot holds that path, and the constructed circuit read it.
C21_SerializedCircuitReadsOwnConfig ==
    \A t \in Threads :
        /\ threads[t].pc = "build" =>
              env[ConfigSlot(threads[t].stage)] = LayerConfigPaths[threads[t].id]
        /\ CircuitBuilt(t) => threads[t].config = LayerConfigPaths[threads[t].id]

\* A verifier was constructed, one compression call for layer 2 has returned
\* and a later compression call for layer 1 has constructed its circuit.
C21_Witness ==
    /\ verifier.constructed
    /\ threads[1].pc = "done" /\ threads[1].stage = "compression"
    /\ threads[1].id = "layer2" /\ threads[1].res.tag = "Ok"
    /\ threads[1].config = LayerConfigPaths["layer2"]
    /\ threads[2].pc = "prove" /\ threads[2].stage = "compression"
    /\ threads[2].id = "layer1"
    /\ threads[2].config = LayerConfigPaths["layer1"]

-----------------------------------------------------------------------------
(* Properties of the test harness (SpecHarness). *)

\* Thread t is between the start of proof generation and its return.
Proving(t) == callers[t].pc \in {"generate", "construct", "verify", "end"}

\* At most one chunk_prove call is generating or verifying a proof, and a call
\* holds the lock from before its proof generation until after its proof was
\* verified (a proof is returned only verified, and then the lock is given up).
HoldsTheLock ==
    /\ \A t, u \in Threads : Proving(t) /\ Proving(u) => t = u
    /\ \A t \in Threads :
          /\ Proving(t) => chunk_prover.owner = t
          /\ chunk_prover.owner = t => Proving(t)
          /\ callers[t].pc \in {"end", "done"} => callers[t].verified
          /\ callers[t].pc = "done" => callers[t].res = Ok(callers[t].proof)

\* A caller that holds the lock gives it up: a waiting caller gets its turn.
LockIsReleased ==
    \A t \in Threads : (chunk_prover.owner = t) ~> (chunk_prover.owner # t)

\* C22: the shared chunk prover is guarded by a mutex: at most one chunk_prove
\* call is generating (and then verifying) a proof with the prover at any
\* time, concurrent callers are serialized in some order, and the lock is
\* held from before proof generation until after the proof has been verified.
C22_ChunkProveIsSerialized == []HoldsTheLock /\ LockIsReleased

\* One caller waits for the lock while the other, holding it, has generated
\* its proof and is about to verify it.
C22_Witness ==
    /\ callers[1].pc = "verify" /\ chunk_prover.owner = 1
    /\ callers[2].pc = "lock"
    /\ callers[1].proof \in HarnessProofs

-----------------------------------------------------------------------------
(* Properties of the EVM sanity check (SpecEvm). *)

\* The contract, deployed and called, accepted the proof: both transactions
\* of the call succeeded.
ContractAccepted == evm_call.deploy = "success" /\ evm_call.call = "success"

\* The contract was run and did not accept: one of the two transactions
\* reverted or halted.
ContractRejected ==
    /\ evm_call.runs > 0
    /\ \/ evm_call.deploy \in {"revert", "halt"}
       \/ evm_call.deploy = "success" /\ evm_call.call \in {"revert", "halt"}

-----------------------------------------------------------------------------
(* Properties of the file helpers (SpecIo). *)

\* C24: every i/o or JSON error returned by read, read_json, read_json_deep,
\* write or write_json carries the path of the file that failed: it is the
\* IoReadWrite or the JsonReadWrite error of the path the helper was called
\* with.  (A helper makes one attempt: the model gives a call one outcome of
\* the file system.)
C24_FileErrorsCarryThePath ==
    (io_call.made /\ io_call.res.tag = "Err")
        => io_call.res.err \in {IoReadWrite(io_call.path), JsonReadWrite(io_call.path)}

-----------------------------------------------------------------------------
(* Failures of a load_or_gen call (SpecCache). *)

\* A call as it would run in the current state: what its gen_*_snark gives
\* and what the call gives.
CallRun(stage, name, id, output_dir, gen, io) ==
    [gen |-> gen, out |-> LoadOrGen(disk, env, stage, name, id, output_dir, gen, io),
     dir |-> output_dir, io |-> io, path |-> CachePath(stage, output_dir.v, id, name)]

\* Every call that can be made in the current state with a circuit adapter
\* of the given outcome.
Runs(adapter) ==
    IF n_calls >= MaxCalls THEN {} ELSE
    UNION {
        {CallRun("inner", name, id, dir, gen_inner_snark(env, id, in, adapter), io) :
            in \in Blocks}
        \cup {CallRun("compression", name, id, dir,
                      gen_comp_snark(env, id, in.has_accumulator, in.degree, in.prev_snark,
                                     adapter), io) : in \in CompInputs}
        \cup {CallRun("aggregation", name, id, dir,
                      gen_agg_snark(env, id, in.degree, in.batch_info, in.halo2_protocol,
                                    in.sp1_protocol, in.previous_snarks, adapter), io) :
                  in \in AggInputs}
        \cup {CallRun("recursion", name, id, dir,
                      gen_recursion_snark(env, id, in.degree, in.batch_snarks, adapter), io) :
                  in \in RecursionInputs} :
        name \in Names, id \in Ids, dir \in OutputDirs, io \in IoOutcomes}

FailingRuns == Runs("fail")

\* In the current state, a call that misses the cache and whose generation
\* fails returns the failure of the generation and leaves the disk as it is.
FailureIsReturned ==
    \A run \in FailingRuns :
        ~run.out.hit
            => /\ run.gen.res.tag # "Ok"
               /\ run.out.res = run.gen.res
               /\ run.out.disk = disk

\* A step in which a call returns the error of the circuit adapter changes no file.
FailureKeepsDisk ==
    (n_calls' = n_calls + 1 /\ last'.res = Err("Adapter")) => disk' = disk

\* C25: if circuit construction or proof generation fails during a
\* load_or_gen_*_snark call, the call returns that error to its caller and no
\* cache file is created or modified for its key.
C25_GenerationFailureIsReturned == []FailureIsReturned /\ [][FailureKeepsDisk]_vars

\* A call with an output directory missed the cache, its adapter failed, and
\* it returned the error; there is still no file at its key.
C25_Witness ==
    /\ n_calls > 0 /\ last.dir.some /\ ~last.hit
    /\ last.invoked = 1
    /\ last.res = Err("Adapter")
    /\ LastPath \notin DOMAIN disk

\* The calls that can be made in the current state in which the snark is
\* generated and the write of the cache file fails.
WriteFailingRuns ==
    {run \in Runs("ok") :
        /\ ~run.out.hit /\ run.gen.res.tag = "Ok"
        /\ run.dir.some /\ run.io # "ok"}

\* Such a call returns the error of write_json, not the snark; the disk is as
\* one attempt to write leaves it, and the adapter was invoked for one
\* generation only.
WriteFailureIsReturned ==
    \A run \in WriteFailingRuns :
        LET attempt == write_json(disk, run.path, run.gen.res.val, run.io)
        IN  /\ run.out.res.tag = "Err"
            /\ run.out.res = attempt.res
            /\ run.out.disk = attempt.disk
            /\ read_json_deep(run.out.disk, run.path).tag # "Ok"
            /\ run.out.invoked = run.gen.invoked

\* The last call generated a snark and failed to write it.
LastWriteFailed ==
    /\ n_calls > 0 /\ ~last.hit /\ last.invoked > 0
    /\ last.res \in {Err("Io"), Err("Serde")}

\* A call that failed to write ran its generation once, and the file at its
\* key holds no snark that it generated.
WriteFailedOnce ==
    LastWriteFailed
        => /\ last.dir.some
           /\ last.invoked = InvocationsOf(last.stage, last.inputs)
           /\ read_json_deep(disk, LastPath).tag # "Ok"

\* C26: if writing the cache file fails after the snark was generated, the
\* load_or_gen call reports the write error to its caller instead of
\* returning the snark, and the write is attempted exactly once: no retry and
\* no second proof generation.
C26_WriteFailureIsReturned == WriteFailureIsReturned /\ WriteFailedOnce

\* A compression call generated its snark, the write of the cache file broke
\* off, and the call returned the error; the file is there and does not decode.
C26_Witness ==
    /\ LastWriteFailed
    /\ last.stage = "compression" /\ last.invoked = 1
    /\ last.res = Err("Serde")
    /\ LastPath \in DOMAIN disk /\ disk[LastPath] = PartialJson

-----------------------------------------------------------------------------
(* Order and failure of the fold (SpecFold). *)

\* The recursion snark after k rounds: the legitimate initial snark, with the
\* verifying key of the proving key, extended by the batch snarks 1..k folded
\* in rounds 0..k-1.
SnarkAfter(k) ==
    [made |-> TRUE, vk |-> Some(pk.vk),
     rounds |-> [j \in 1..k |-> [app |-> batch_snarks[j], round |-> j - 1]]]

\* The circuits built in the loop: all but the circuit built for the key.
LoopCircuits == SubSeq(circuits, 2, Len(circuits))

\* The circuit of round k (the k+1-st of the loop) is built from the snark of
\* round k-1, the k+1-st batch snark and the round number k; a proof is the
\* proof of the circuit of its round; the counter counts the proofs, the task
\* holds the batch snarks not folded and the running snark is that of the
\* last round.
FoldOrder ==
    /\ \A k \in 0..(Len(LoopCircuits) - 1) :
          /\ LoopCircuits[k + 1].app = batch_snarks[k + 1]
          /\ LoopCircuits[k + 1].previous = SnarkAfter(k)
          /\ LoopCircuits[k + 1].round = k
    /\ \A k \in 1..Len(proofs) : proofs[k].circuit = LoopCircuits[k] /\ proofs[k].pk = pk
    /\ pc \in {"loop", "done", "failed"} /\ pk.made
          => /\ n_rounds = Len(proofs)
             /\ cur_snark = SnarkAfter(n_rounds)
             /\ task = SubSeq(batch_snarks, n_rounds + 1, Len(batch_snarks))
             /\ Len(LoopCircuits) \in {n_rounds, n_rounds + 1}

\* The counter moves by one, when a proof is produced; the task is replaced
\* by its state transition for the new round number in a step that produced
\* the proof of the round, and in no other.
FoldRoundStep ==
    /\ n_rounds' # n_rounds
          => /\ n_rounds' = n_rounds + 1
             /\ proofs' = Append(proofs, [circuit |-> circuits'[Len(circuits')], pk |-> pk])
             /\ circuits'[Len(circuits')].round = n_rounds
    /\ (pc = "loop" /\ task' # task)
          => /\ task' = RecursionTask(state_transition(task, n_rounds + 1))
             /\ n_rounds' = n_rounds + 1
             /\ Len(proofs') = Len(proofs) + 1
    /\ (pc = "loop" /\ proofs' = proofs) => (task' = task /\ n_rounds' = n_rounds)

\* C27: in round k the recursion circuit is built from the snark produced by
\* round k-1 (the legitimate initial snark for k = 0), the next batch snark
\* of the task and the round number k; the round counter increases by
\* exactly 1 per round, and the task is replaced by its state transition for
\* the new round number only after the proof of the round was produced.
C27_FoldOrdering == []FoldOrder /\ [][FoldRoundStep]_vars

\* Two rounds are done and a third batch snark is still to fold.
C27_Witness ==
    /\ pc = "loop"
    /\ Len(batch_snarks) = 3
    /\ n_rounds = 2
    /\ Len(LoopCircuits) = 2
    /\ LoopCircuits[2].previous = SnarkAfter(1)
    /\ task = <<batch_snarks[3]>>

\* A circuit of the loop has no proof: the proof of the round failed.
RoundFailed == Len(LoopCircuits) > Len(proofs)

\* When the proof of a round fails the fold has ended with the error, with no
\* snark as its result; and nothing is ever written to the disk.
FoldFailure ==
    /\ RoundFailed
          => /\ pc = "failed"
             /\ fold_result = Err("Adapter")
             /\ Len(LoopCircuits) = Len(proofs) + 1
             /\ n_rounds = Len(proofs)
    /\ pc = "failed" => fold_result.tag = "Err"
    /\ fold_result.tag = "Ok" => ~RoundFailed /\ completed(task)
    /\ disk = << >>

\* After the failure no round runs; the only step is a new call of the fold,
\* which starts with nothing of the call that failed.
AfterFoldFailure ==
    pc = "failed"
        => /\ pc' = "start"
           /\ batch_snarks' = batch_snarks
           /\ n_rounds' = 0 /\ proofs' = <<>> /\ circuits' = <<>>
           /\ cur_snark' = NoFoldSnark /\ pk' = NoPk /\ task' = <<>>

\* C28: if the proof generation fails in round k of the fold, the whole fold
\* returns an error: no later round runs, no snark is returned, and the
\* snarks of the rounds before k are not persisted, so that a retried fold
\* starts again from the bootstrap and round 0.
C28_FailedRoundFailsTheFold ==
    [](FoldFailure /\ FoldOrder) /\ [][AfterFoldFailure]_vars

\* The fold was called again after a failure, ran round 0 anew and failed in
\* round 1.
C28_Witness ==
    /\ keygens = 2
    /\ pc = "failed" /\ fold_result = Err("Adapter")
    /\ n_rounds = 1 /\ Len(proofs) = 1
    /\ Len(LoopCircuits) = 2
    /\ LoopCircuits[1].round = 0 /\ LoopCircuits[1].previous = SnarkAfter(0)

-----------------------------------------------------------------------------
(* Concurrent calls for one cache key (SpecConcurrent). *)

\* Both threads are in a call, for the same stage and the same layer id: the
\* same cache file.
SameCacheKey ==
    /\ \A t \in Threads : threads[t].pc # "idle"
    /\ ThreadPath(1) = ThreadPath(2)

\* Thread t has observed a miss: it is past the read of the cache file and
\* has not returned what the file held.
ObservedMiss(t) ==
    \/ threads[t].pc \in {"set_var", "build", "prove", "write"}
    \/ threads[t].pc = "done" /\ threads[t].config # Unset

\* No step of a call waits for another call: whatever the other thread is
\* doing, a thread can enter its call, read the cache file, and having
\* generated its snark write the file.
NoStepWaits ==
    \A t \in Threads :
        /\ threads[t].pc = "idle" => ENABLED ConcCall(t)
        /\ threads[t].pc = "read" => ENABLED ConcReadCache(t)
        /\ threads[t].pc = "prove" => ENABLED ConcProve(t)
        /\ threads[t].pc = "write" => ENABLED ConcWriteCache(t)

\* When both calls for one key have returned the snarks they generated, each
\* has written the file, and the file holds one of the two snarks: that of
\* the call that wrote last.
LastWriteRemains ==
    (/\ SameCacheKey
     /\ \A t \in Threads : threads[t].pc = "done" /\ ObservedMiss(t)
     /\ \A t \in Threads : threads[t].res = Ok(threads[t].snark))
        => /\ ThreadPath(1) \in DOMAIN disk
           /\ disk[ThreadPath(1)] \in {ToJson(threads[t].snark) : t \in Threads}
           /\ threads[1].snark # threads[2].snark

-----------------------------------------------------------------------------
(* The encoding of the payload into coefficients (SpecBlob). *)

\* Input byte i (counted from 0) covers byte position q (counted from 1, the
\* top byte first) of coefficient k (counted from 1).
Covers(i, k, q) ==
    /\ k = (i \div N_DATA_BYTES_PER_COEFFICIENT) + 1
    /\ q = 1 + (i % N_DATA_BYTES_PER_COEFFICIENT) + 1

\* The coefficients of `bytes` are as the claim says.
CoefficientsOf(bytes) ==
    LET c == get_coefficients(bytes)
    IN  IF Len(bytes) > BLOB_WIDTH * N_DATA_BYTES_PER_COEFFICIENT
        THEN c.tag = "Panic"
        ELSE /\ c.tag = "Ok"
             /\ Len(c.val) = BLOB_WIDTH
             /\ \A k \in 1..BLOB_WIDTH :
                   /\ Len(c.val[k]) = N_BYTES_U256
                   /\ c.val[k][1] = 0
                   /\ \A q \in 1..N_BYTES_U256 :
                         (\A i \in 0..(Len(bytes) - 1) : ~Covers(i, k, q)) => c.val[k][q] = 0
             /\ \A i \in 0..(Len(bytes) - 1) :
                   c.val[(i \div N_DATA_BYTES_PER_COEFFICIENT) + 1]
                        [1 + (i % N_DATA_BYTES_PER_COEFFICIENT) + 1] = bytes[i + 1]

\* C30: input byte i is placed at byte position 1 + (i mod 31) of the
\* big-endian coefficient floor(i / 31): the result has exactly BLOB_WIDTH
\* coefficients, the top byte of every coefficient is zero, every position
\* that no input byte covers is zero, and an input of more than
\* BLOB_WIDTH * 31 bytes is rejected.
C30_PayloadBytesInCoefficients ==
    \A n \in 1..Len(blob_calls) :
        /\ CoefficientsOf(blob_calls[n].bytes)
        /\ Len(blob_calls[n].bytes) > BLOB_WIDTH * N_DATA_BYTES_PER_COEFFICIENT
              => blob_calls[n].res.tag = "Panic"

\* A witness was built from 32 bytes, whose last byte is the first data byte
\* of the second coefficient, and a construction from too many bytes was
\* rejected.
C30_Witness ==
    /\ Len(blob_calls) = 2
    /\ Len(blob_calls[1].bytes) = 32
    /\ blob_calls[1].res.tag = "Ok"
    /\ get_coefficients(blob_calls[1].bytes).val[2][2] = blob_calls[1].bytes[32]
    /\ blob_calls[1].bytes[32] # 0
    /\ Len(blob_calls[2].bytes) > N_BLOB_BYTES
    /\ blob_calls[2].res.tag = "Panic"

-----------------------------------------------------------------------------
(* The evaluation challenge of a witness (SpecBlob). *)

\* a + b + carry for two byte strings of the same length read as big-endian
\* numbers; the result is one byte longer.
RECURSIVE AddBE(_, _, _)
AddBE(a, b, carry) ==
    IF a = <<>> THEN <<carry>>
    ELSE LET n == Len(a)
             sum == a[n] + b[n] + carry
         IN  AddBE(SubSeq(a, 1, n - 1), SubSeq(b, 1, n - 1), sum \div 256)
                \o <<sum % 256>>

\* c + q * BLS_MODULUS = d for a q in 0..2 (2^256 is less than three times
\* the modulus); c and d are 32 big-endian bytes.
CongruentModBLS(c, d) ==
    LET once == AddBE(<<0>> \o c, <<0>> \o BLS_MODULUS, 0)
        twice == AddBE(SubSeq(once, 2, 34), <<0>> \o BLS_MODULUS, 0)
    IN  \/ c = d
        \/ once = <<0, 0>> \o d
        \/ twice = <<0, 0>> \o d

\* The witnesses constructed so far.
Witnesses == {n \in 1..Len(blob_calls) : blob_calls[n].res.tag = "Ok"}

\* The digest that PointEvaluationAssignments::new computed for call n.
DigestOf(n) ==
    PointEvaluationAssignments_new(blob_calls[n].batch_data, blob_calls[n].bytes,
        blob_calls[n].res.val.blob_versioned_hash).challenge_digest

\* C31: for every challenge digest, challenge() is the digest, read as a
\* big-endian integer, reduced modulo the modulus of the scalar field: a
\* canonical scalar less than the modulus and congruent to the digest;
\* challenge_digest() is the digest, not reduced.
C31_ChallengeIsDigestModModulus ==
    \A n \in Witnesses :
        LET self == blob_calls[n].res.val
            c == Reverse(BlobConsistencyWitness_challenge(self))
        IN  /\ Len(c) = 32
            /\ LessBE(c, BLS_MODULUS)
            /\ CongruentModBLS(c, DigestOf(n))
            /\ BlobConsistencyWitness_challenge_digest(self) = DigestOf(n)

\* A witness whose digest is not below the modulus: its challenge differs
\* from the digest and from the low bits of the digest.
C31_Witness ==
    \E n \in Witnesses :
        LET self == blob_calls[n].res.val
            c == Reverse(BlobConsistencyWitness_challenge(self))
        IN  /\ ~LessBE(DigestOf(n), BLS_MODULUS)
            /\ c # DigestOf(n)
            /\ c # [DigestOf(n) EXCEPT ![1] = @ % 64]
            /\ BlobConsistencyWitness_challenge_digest(self) = DigestOf(n)

-----------------------------------------------------------------------------
(* The proof pair of a witness (SpecBlob). *)

\* `digest` holds the scalar `x` most significant byte first; `x` is the
\* little-endian representation of the scalar.
BigEndianOf(digest, x) ==
    /\ Len(digest) = 32
    /\ \A i \in 1..32 : digest[i] = x[33 - i]

\* C32: blob_data_proof returns exactly two digest-sized values, in the order
\* (challenge, evaluation): the first is the 32-byte big-endian encoding of
\* the reduced challenge, not the challenge digest, the second the 32-byte
\* big-endian encoding of the evaluation of the witness.
C32_BlobDataProofIsChallengeThenEvaluation ==
    \A n \in Witnesses :
        LET self == blob_calls[n].res.val
            proof == BlobConsistencyWitness_blob_data_proof(self)
        IN  /\ DOMAIN proof = 1..2
            /\ BigEndianOf(proof[1], BlobConsistencyWitness_challenge(self))
            /\ LessBE(proof[1], BLS_MODULUS)
            /\ CongruentModBLS(proof[1], DigestOf(n))
            /\ BigEndianOf(proof[2], BlobConsistencyWitness_evaluation(self))
            /\ BigEndianOf(proof[2], self.evaluation)

\* The proof pair of a witness whose digest is not below the modulus and
\* whose challenge and evaluation differ: the first value is neither the
\* digest nor the evaluation, and neither value reads the same in both
\* byte orders.
C32_Witness ==
    \E n \in Witnesses :
        LET self == blob_calls[n].res.val
            proof == BlobConsistencyWitness_blob_data_proof(self)
        IN  /\ ~LessBE(DigestOf(n), BLS_MODULUS)
            /\ proof[1] # DigestOf(n)
            /\ proof[1] # proof[2]
            /\ proof[1] # BlobConsistencyWitness_challenge(self)
            /\ proof[2] # self.evaluation
            /\ BigEndianOf(proof[1], BlobConsistencyWitness_challenge(self))
            /\ BigEndianOf(proof[2], self.evaluation)

-----------------------------------------------------------------------------
(* The paths of cache keys (SpecKeys). *)

\* C33: within one output directory, two cache keys that differ in the stage
\* kind, the layer id or the artifact name never have the same cache file
\* path.
C33_CachePathIsInjective ==
    (key_paths.made /\ key_paths.a # key_paths.b) => key_paths.path_a # key_paths.path_b

\* The paths of two keys were formed whose layer ids and names differ and
\* whose names contain the separator of the file name.
C33_Witness ==
    /\ key_paths.made
    /\ key_paths.a = [stage |-> "compression", id |-> "layer1", name |-> "0_1"]
    /\ key_paths.b = [stage |-> "compression", id |-> "layer2", name |-> "layer1_0"]
    /\ key_paths.path_a = "out/compression_snark_layer1_0_1.json"
    /\ key_paths.path_b = "out/compression_snark_layer2_layer1_0.json"

-----------------------------------------------------------------------------
(* The empty batch list and the cache (SpecCache). *)

\* The last call was load_or_gen_recursion_snark with an empty batch list.
EmptyRecursionCall ==
    /\ n_calls >= 1
    /\ last.stage = "recursion"
    /\ \E in \in RecursionInputs : in.batch_snarks = <<>> /\ last.inputs = ToString(in)

NonEmptyAssertion == Panic("assertion failed: !batch_snarks.is_empty()")

\* C34: the non-empty check on the batch list is reached only on a cache
\* miss: load_or_gen_recursion_snark called with an empty batch list, an
\* output directory and a readable cache entry at the key returns the cached
\* snark successfully instead of failing.
C34_EmptyListHitsTheCache ==
    EmptyRecursionCall
        => /\ (last.dir.some /\ last.before.tag = "Ok")
                => /\ last.res = Ok(last.before.val)
                   /\ last.hit
                   /\ last.invoked = 0
           /\ last.res = NonEmptyAssertion
                => /\ ~last.hit
                   /\ ~last.dir.some \/ last.before.tag # "Ok"

\* A recursion call with two batch snarks stored its snark, and a call with
\* the same key and an empty batch list returned that snark.
C34_Witness ==
    /\ EmptyRecursionCall
    /\ SameKey
    /\ prev.stage = "recursion"
    /\ prev.invoked = 2
    /\ prev.res.tag = "Ok"
    /\ last.dir.some
    /\ last.before.tag = "Ok"
    /\ last.res = prev.res
    /\ last.hit

-----------------------------------------------------------------------------
(* The proving key of a fold (SpecFold). *)

\* The key is obtained at most once, from the circuit built on the
\* placeholder snark, and before any round; every proof was generated with it.
OneKeyFromPlaceholder ==
    /\ keygens <= 1
    /\ pk.made
          => /\ keygens = 1
             /\ pk = KeyOf(circuit_for_pk)
             /\ pk.circuit.previous = initial_recursion_snark(None)
    /\ pc \in {"loop", "done"} => pk.made
    /\ proofs # <<>> => pk.made
    /\ \A i \in DOMAIN proofs : proofs[i].pk = pk

\* Once the loop has been entered neither the key nor the count of key
\* generations changes.
KeyIsKept == pc = "loop" => (pk' = pk /\ keygens' = keygens)

\* C35: within one fold the proving key is obtained exactly once, from the
\* circuit built on the placeholder and before the first round; every round's
\* proof is generated with that key and its parameters, and the key is not
\* generated again between rounds.
C35_OneProvingKeyPerFold == []OneKeyFromPlaceholder /\ [][KeyIsKept]_vars

\* A fold of several batch snarks returned: every proof was made with the key of
\* the one key generation.
C35_Witness ==
    /\ pc = "done"
    /\ Len(proofs) >= 2
    /\ keygens = 1
    /\ pk.circuit = circuit_for_pk
    /\ \A i \in DOMAIN proofs : proofs[i].pk = pk /\ proofs[i].circuit # pk.circuit

-----------------------------------------------------------------------------
(* deploy_and_call (SpecDeploy). *)

\* The invocation started on a database with no account, ran the create
\* transaction first, and ran the call transaction only after a successful
\* deployment, on the database the deployment left, to the contract it created.
DeployThenCall(inv) ==
    LET txs == inv.out.txs
    IN  /\ Len(txs) >= 1
        /\ txs[1].kind = "create"
        /\ txs[1].data = inv.deployment_code
        /\ txs[1].db = InMemoryDB_default
        /\ Len(txs) = (IF inv.deploy = "success" THEN 2 ELSE 1)
        /\ inv.deploy \in {"revert", "halt"} => inv.out.res.tag = "Err"
        /\ inv.out.res.tag = "Ok" <=> (inv.deploy = "success" /\ inv.call = "success")
        /\ Len(txs) = 2
              => /\ txs[2].kind = "call"
                 /\ txs[2].data = inv.calldata
                 /\ DOMAIN txs[2].db.code = {txs[2].to}
                 /\ txs[2].db.code[txs[2].to] = inv.deployment_code

\* C36: deploy_and_call runs the call only after a successful deployment, in
\* the same fresh in-memory state: a deployment that reverts or halts gives an
\* error and no call; the result is Ok only if the deployment and the call
\* both succeed; and nothing of an invocation is visible to a later one, so
\* that equal arguments and equal behaviour of the contract give equal results.
C36_DeployThenCallOnFreshState ==
    /\ \A n \in 1..Len(evm_log) : DeployThenCall(evm_log[n])
    /\ \A m, n \in 1..Len(evm_log) :
          (/\ evm_log[m].deployment_code = evm_log[n].deployment_code
           /\ evm_log[m].calldata = evm_log[n].calldata
           /\ evm_log[m].deploy = evm_log[n].deploy
           /\ evm_log[m].call = evm_log[n].call)
              => evm_log[m].out = evm_log[n].out

\* A first invocation deployed a contract and called it; in a second one the
\* deployment reverted: no call was made, and the database it started on did
\* not hold the contract of the first.
C36_Witness ==
    /\ Len(evm_log) = 2
    /\ evm_log[1].out.res = Ok("gas_used")
    /\ Len(evm_log[1].out.txs) = 2
    /\ evm_log[1].out.txs[2].db.code # << >>
    /\ evm_log[2].deploy = "revert"
    /\ evm_log[2].out.res = Err("Contract deployment transaction reverts")
    /\ Len(evm_log[2].out.txs) = 1
    /\ evm_log[2].out.txs[1].db.code = << >>

-----------------------------------------------------------------------------
(* Conversions of proof artifacts into snarks (SpecConvert). *)

ProtocolNotFound ==
    Err(ProverCustom("protocol either not found or cannot be deserialized successfully"))

\* The snark has the proof bytes of the artifact and one column of instances,
\* the 32-byte words of the instances bytes.
SnarkOfArtifact(snark, value) ==
    /\ snark.proof = value.proof
    /\ Len(snark.instances) = 1
    /\ Len(snark.instances[1]) * 32 = Len(value.instances)
    /\ \A i \in 1..Len(snark.instances[1]) :
          \A j \in 1..32 : snark.instances[1][i][j] = value.instances[32 * i + 1 - j]

\* C37, as stated: converting a bundle proof into a Snark always fails with
\* the custom error of the missing protocol; converting a chunk or batch proof
\* succeeds exactly when its stored protocol bytes decode, and then the snark
\* has the proof bytes of the artifact and a single instance column decoded
\* from its instances bytes.
C37_ConversionSucceedsIffProtocolDecodes ==
    \A n \in 1..Len(conversions) :
        LET value == conversions[n].value
            res == conversions[n].res
        IN  IF value.inner.NAME = "bundle"
            THEN res = ProtocolNotFound
            ELSE /\ res.tag = "Ok" <=> ProtocolDecodes(value.inner.protocol)
                 /\ ~ProtocolDecodes(value.inner.protocol) => res = ProtocolNotFound
                 /\ res.tag = "Ok" => SnarkOfArtifact(res.val, value)

-----------------------------------------------------------------------------
(* The bytes of a blob (SpecBlobBytes). *)

Min(a, b) == IF a < b THEN a ELSE b

\* C38: get_blob_bytes returns one flag byte and a payload: flag 1 and the
\* encoding when the encoding is strictly shorter than the batch bytes,
\* otherwise flag 0 and the batch bytes unchanged; the length of the output is
\* 1 + min(length of the encoding, length of the batch bytes), and the flag
\* tells which payload follows.
C38_FlagThenShorterPayload ==
    blob_bytes_call.made
        => LET batch_bytes == blob_bytes_call.batch_bytes
               encoded == zstd_encode(batch_bytes)
               out == blob_bytes_call.res
           IN  /\ Len(out) >= 1
               /\ out[1] \in {0, 1}
               /\ out[1] = 1 <=> Len(encoded) < Len(batch_bytes)
               /\ out[1] = 1 => Tail(out) = encoded
               /\ out[1] = 0 => Tail(out) = batch_bytes
               /\ Len(out) = 1 + Min(Len(encoded), Len(batch_bytes))

\* Seven equal bytes were encoded into six: flag 1 and the encoding.
C38_Witness ==
    /\ blob_bytes_call.made
    /\ blob_bytes_call.batch_bytes = <<7, 7, 7, 7, 7, 7, 7>>
    /\ blob_bytes_call.res = <<1, 40, 181, 47, 253, 7, 7>>

====
